---- MODULE Spec2Model ----
(***************************************************************************)
(* Model of the extensible-record codec of open-dis-python:                *)
(*   opendis/record/__init__.py             Standard Variable records,     *)
(*                                          StandardVariables, getSVClass  *)
(*                                          and the fixed-layout records   *)
(*   opendis/record/identifier.py           the identifier records         *)
(*   opendis/record/entity_info/__init__.py getEntityAppearanceClass, the  *)
(*                                          Variable Parameter records,    *)
(*                                          SilentEntitySystem             *)
(*   opendis/record/entity_info/appearance.py  the appearance records and  *)
(*                                          their bit-field layouts        *)
(*                                                                         *)
(* A byte is an integer 0..255, a stream is a sequence of bytes.  An       *)
(* output stream is kept as the sequence of the writes made to it (each    *)
(* write is the bytes of one write_* call), so that the order and the size *)
(* of the writes can be stated.  The model checker's integers are 32-bit   *)
(* signed, so a uint32 v of 2^31 or more is represented by v - 2^32 (the   *)
(* same 32 bits); every uint32 below 2^31 is itself.                       *)
(***************************************************************************)
EXTENDS Integers, Sequences, FiniteSets, TLC

VARIABLES
    items,   \* StandardVariables._standardVariables
    inp,     \* bytes of the DataInputStream handed to the last parse
    pos,     \* number of bytes of inp the last parse consumed
    out,     \* writes made to the DataOutputStream by the last serialize
    fault,   \* how the last call ended: "none" or the exception raised
    op,      \* the last call
    arg,     \* arguments of the last call
    ret,     \* value returned by the last call (a class name, a count)
    registries,  \* the module-level dicts __SVTypeMap and
                 \* __variableParameterClasses
    heap,    \* the Variable Parameter class objects, by reference
    callers  \* the concurrent callers of the registries

vars == <<items, inp, pos, out, fault, op, arg, ret, registries, heap, callers>>

\* The state of the codec calls, and the state callers share.
codec == <<items, inp, pos, out, fault, op, arg, ret>>

shared == <<registries, heap, callers>>

----------------------------------------------------------------------------
(* Bounds of the model                                                     *)

MaxItems == 2      \* longest StandardVariables built by list operations
MaxPayload == 2    \* longest free payload of an unknown record on the wire
MaxWire == 2       \* most records in a wire stream, and largest count field
MaxKind == 11      \* largest entity kind looked up
MaxDomain == 6     \* largest domain looked up
MaxCallers == 2    \* concurrent callers of the registries
MaxCalls == 2      \* calls the concurrent callers make in all

\* An optional argument is <<>> (None) or <<value>>.
None == <<>>
Some(x) == <<x>>

\* Sample byte values used for free payload bytes.
ByteVals == {170, 187}

\* The record type 0xFFFFFFFF, which no registry holds.
BigType == 0 - 1

----------------------------------------------------------------------------
(* Stream primitives (opendis.stream, big-endian)                          *)

U8(n) == <<n % 256>>

U16(n) == <<(n \div 256) % 256, n % 256>>

U32(n) == <<(n \div 16777216) % 256, (n \div 65536) % 256,
            (n \div 256) % 256, n % 256>>

\* A float32 field holds the 32-bit pattern of its value.
F32(n) == U32(n)

\* Value of the uint16 / uint32 that starts after the first p bytes of s.
U16At(s, p) == s[p + 1] * 256 + s[p + 2]

U32At(s, p) ==
    (IF s[p + 1] < 128 THEN s[p + 1] ELSE s[p + 1] - 256) * 16777216
    + s[p + 2] * 65536 + s[p + 3] * 256 + s[p + 4]

\* Number of bytes left after the first p bytes of s.
Remaining(s, p) == Len(s) - p

RECURSIVE Flatten(_)
Flatten(ws) == IF ws = <<>> THEN <<>> ELSE Head(ws) \o Flatten(Tail(ws))

\* The bytes an output stream holds.
Bytes(ws) == Flatten(ws)

RECURSIVE SeqsUpTo(_, _)
SeqsUpTo(S, n) ==
    IF n = 0 THEN {<<>>}
    ELSE LET shorter == SeqsUpTo(S, n - 1)
         IN  shorter \cup {Append(s, x) : s \in shorter, x \in S}

----------------------------------------------------------------------------
(* Bit fields (opendis.record.bitfield).  A layout is the list of its      *)
(* fields in declaration order; the first field takes the most significant *)
(* bits, each value is masked to the width of its field, and the container *)
(* is written as whole bytes, most significant first.  The container is    *)
(* handled as its bits, so that all 32 of them can be told apart.          *)

Field(name, width) == [name |-> name, width |-> width]

\* Total of the widths of the fields.
RECURSIVE BitSize(_)
BitSize(fields) ==
    IF fields = <<>> THEN 0 ELSE Head(fields).width + BitSize(Tail(fields))

\* bitfield.bitfield(name, fields): the widths must fill a container of 8,
\* 16, 32 or 64 bits.
bitfield(name, fields) ==
    [name |-> name, fields |-> fields,
     fault |-> IF BitSize(fields) \in {8, 16, 32, 64} THEN "none"
               ELSE "ConfigurationError"]

\* The low w bits of v, most significant first.
RECURSIVE Bits(_, _)
Bits(v, w) == IF w = 0 THEN <<>> ELSE Append(Bits(v \div 2, w - 1), v % 2)

\* The unsigned integer a sequence of bits spells.
RECURSIVE BitsValue(_)
BitsValue(bits) ==
    IF bits = <<>> THEN 0
    ELSE 2 * BitsValue(SubSeq(bits, 1, Len(bits) - 1)) + bits[Len(bits)]

\* The bits of a container holding values, one per field.
RECURSIVE Bitfield_bits(_, _)
Bitfield_bits(fields, values) ==
    IF fields = <<>> THEN <<>>
    ELSE Bits(Head(values), Head(fields).width)
         \o Bitfield_bits(Tail(fields), Tail(values))

\* struct.marshalledSize()
Bitfield_marshalledSize(fields) == BitSize(fields) \div 8

\* struct(*values).serialize(outputStream): the bytes of the one write.
Bitfield_serialize(fields, values) ==
    LET bits == Bitfield_bits(fields, values)
    IN  [i \in 1 .. Bitfield_marshalledSize(fields) |->
             BitsValue(SubSeq(bits, 8 * i - 7, 8 * i))]

RECURSIVE BytesBits(_)
BytesBits(bytes) ==
    IF bytes = <<>> THEN <<>> ELSE Bits(Head(bytes), 8) \o BytesBits(Tail(bytes))

\* Number of bits ahead of field i of a layout.
BitOffset(fields, i) == BitSize(SubSeq(fields, 1, i - 1))

\* struct.parse(inputStream) on the bytes after the first p of s: the
\* values of the fields in declaration order.
Bitfield_parse(fields, s, p) ==
    LET bits == BytesBits(SubSeq(s, p + 1,
                                 p + Bitfield_marshalledSize(fields)))
    IN  [i \in DOMAIN fields |->
             BitsValue(SubSeq(bits, BitOffset(fields, i) + 1,
                              BitOffset(fields, i) + fields[i].width))]

\* NetId._struct
NetId_struct ==
    <<Field("netNumber", 10),
      Field("frequencyTable", 2),
      Field("mode", 2),
      Field("padding", 2)>>

NetId_serialize(self) ==
    <<Bitfield_serialize(NetId_struct,
          <<self.netNumber, self.frequencyTable, self.mode, self.padding>>)>>

\* The Land Platform layout with the widths of firepowerKilled and damage
\* exchanged.
LandPlatformAppearance_struct_narrowDamage ==
    <<Field("paintScheme", 1),
      Field("mobilityKilled", 1),
      Field("firepowerKilled", 2),
      Field("damage", 1),
      Field("isSmokeEmanating", 1),
      Field("isEngineEmittingSmoke", 1),
      Field("trailingDustCloud", 2),
      Field("primaryHatch", 3),
      Field("headLightsOn", 1),
      Field("tailLightsOn", 1),
      Field("brakeLightsOn", 1),
      Field("isFlaming", 1),
      Field("operational", 1),
      Field("camouflageType", 2),
      Field("concealedPosition", 1),
      Field("unused", 1),
      Field("isFrozen", 1),
      Field("powerPlantOn", 1),
      Field("state", 1),
      Field("tentExtended", 1),
      Field("rampExtended", 1),
      Field("blackoutLightsOn", 1),
      Field("blackoutBrakeLightsOn", 1),
      Field("spotLightOn", 1),
      Field("interiorLightsOn", 1),
      Field("occupantsSurrendered", 1),
      Field("cloaked", 1)>>

\* LandPlatformAppearance._struct
LandPlatformAppearance_struct ==
    <<Field("paintScheme", 1),
      Field("mobilityKilled", 1),
      Field("firepowerKilled", 1),
      Field("damage", 2),
      Field("isSmokeEmanating", 1),
      Field("isEngineEmittingSmoke", 1),
      Field("trailingDustCloud", 2),
      Field("primaryHatch", 3),
      Field("headLightsOn", 1),
      Field("tailLightsOn", 1),
      Field("brakeLightsOn", 1),
      Field("isFlaming", 1),
      Field("operational", 1),
      Field("camouflageType", 2),
      Field("concealedPosition", 1),
      Field("unused", 1),
      Field("isFrozen", 1),
      Field("powerPlantOn", 1),
      Field("state", 1),
      Field("tentExtended", 1),
      Field("rampExtended", 1),
      Field("blackoutLightsOn", 1),
      Field("blackoutBrakeLightsOn", 1),
      Field("spotLightOn", 1),
      Field("interiorLightsOn", 1),
      Field("occupantsSurrendered", 1),
      Field("cloaked", 1)>>

\* AirPlatformAppearance._struct
AirPlatformAppearance_struct ==
    <<Field("paintScheme", 1),
      Field("propulsionKilled", 1),
      Field("nvgMode", 1),
      Field("damage", 2),
      Field("isSmokeEmanating", 1),
      Field("isEngineEmittingSmoke", 1),
      Field("trailingEffects", 2),
      Field("canopyDoor", 3),
      Field("landingLightsOn", 1),
      Field("navigationLightsOn", 1),
      Field("antiCollisionLightsOn", 1),
      Field("isFlaming", 1),
      Field("afterburnerOn", 1),
      Field("lowerAntiCollisionLightOn", 1),
      Field("upperAntiCollisionLightOn", 1),
      Field("antiCollisionLightDayOrNight", 1),
      Field("isBlinking", 1),
      Field("isFrozen", 1),
      Field("powerPlantOn", 1),
      Field("state", 1),
      Field("formationLightsOn", 1),
      Field("landingGearExtended", 1),
      Field("cargoDoorsOpened", 1),
      Field("navigationLightBrightness", 1),
      Field("spotLightOn", 1),
      Field("interiorLightsOn", 1),
      Field("reverseThrustEngaged", 1),
      Field("weightOnWheels", 1)>>

\* SurfacePlatformAppearance._struct
SurfacePlatformAppearance_struct ==
    <<Field("paintScheme", 1),
      Field("mobilityKilled", 1),
      Field("unused1", 1),
      Field("damage", 2),
      Field("isSmokeEmanating", 1),
      Field("isEngineEmittingSmoke", 1),
      Field("wakeSize", 2),
      Field("unused2", 3),
      Field("runningLightsOn", 1),
      Field("unused3", 2),
      Field("isFlaming", 1),
      Field("isAccomodationLadderLowered", 1),
      Field("isFenceRaised", 2),
      Field("isFlagRaised", 2),
      Field("unused4", 2),
      Field("isFrozen", 1),
      Field("powerPlantOn", 1),
      Field("state", 1),
      Field("unused5", 3),
      Field("towedArraySonar", 1),
      Field("spotLightOn", 1),
      Field("interiorLightsOn", 1),
      Field("unused6", 2)>>

\* SubsurfacePlatformAppearance._struct
SubsurfacePlatformAppearance_struct ==
    <<Field("paintScheme", 1),
      Field("mobilityKilled", 1),
      Field("unused1", 1),
      Field("damage", 2),
      Field("isSmokeEmanating", 1),
      Field("isEngineEmittingSmoke", 1),
      Field("unused2", 2),
      Field("hatchState", 3),
      Field("runningLightsOn", 1),
      Field("unused3", 2),
      Field("isFlaming", 1),
      Field("periscope", 1),
      Field("snorkel", 1),
      Field("radarMast", 1),
      Field("commsMast", 1),
      Field("esmMast", 1),
      Field("isFrozen", 1),
      Field("powerPlantOn", 1),
      Field("state", 1),
      Field("unused4", 1),
      Field("torpedoTubesOpen", 1),
      Field("missileHatchesOpen", 1),
      Field("towedArraySonar", 1),
      Field("unused5", 4)>>

\* SpacePlatformAppearance._struct
SpacePlatformAppearance_struct ==
    <<Field("paintScheme", 1),
      Field("mobilityKilled", 1),
      Field("unused1", 1),
      Field("damage", 2),
      Field("isSmokeEmanating", 1),
      Field("isEngineEmittingSmoke", 1),
      Field("unused2", 8),
      Field("isFlaming", 1),
      Field("unused3", 5),
      Field("isFrozen", 1),
      Field("powerPlantOn", 1),
      Field("state", 1),
      Field("unused4", 8)>>

\* MunitionAppearance._struct
MunitionAppearance_struct ==
    <<Field("unused", 3),
      Field("damage", 2),
      Field("sSmokeEmanating", 1),
      Field("isEngineEmittingSmoke", 1),
      Field("vaporTrailSize", 2),
      Field("unused1", 6),
      Field("isFlaming", 1),
      Field("launchFlashPresent", 1),
      Field("unused2", 4),
      Field("isFrozen", 1),
      Field("powerPlantOn", 1),
      Field("state", 1),
      Field("coverShroudStatus", 2),
      Field("unused3", 6)>>

\* HumanLifeFormAppearance._struct
HumanLifeFormAppearance_struct ==
    <<Field("paintScheme", 1),
      Field("unused1", 2),
      Field("health", 2),
      Field("complianceStatus", 4),
      Field("clothingIRSignature", 2),
      Field("signalSmokeInUse", 1),
      Field("flashLightsOn", 1),
      Field("signalMirrorInUse", 1),
      Field("irStrobeOn", 1),
      Field("irIlluminatorOn", 1),
      Field("ifeFormPosture", 4),
      Field("isSmokingCigarette", 1),
      Field("isFrozen", 1),
      Field("mountedStatus", 2),
      Field("state", 1),
      Field("primaryWeaponPosition", 2),
      Field("secondaryWeaponPosition", 2),
      Field("camouflageType", 2),
      Field("concealedStationary", 1),
      Field("concealedMoving", 1)>>

\* EnvironmentalAppearance._struct
EnvironmentalAppearance_struct ==
    <<Field("unused1", 16),
      Field("density", 4),
      Field("isFrozen", 1),
      Field("unused2", 1),
      Field("state", 1),
      Field("unused3", 7),
      Field("masked", 1)>>

\* CulturalFeatureAppearance._struct
CulturalFeatureAppearance_struct ==
    <<Field("damageArea", 3),
      Field("damage", 2),
      Field("isSmokeEmanating", 1),
      Field("unused1", 9),
      Field("isFlaming", 1),
      Field("unused2", 5),
      Field("isFrozen", 1),
      Field("internalHeatOn", 1),
      Field("state", 1),
      Field("unused3", 4),
      Field("exteriorLightsOn", 1),
      Field("interiorLightsOn", 1),
      Field("unused4", 1),
      Field("masked", 1)>>

\* SupplyAppearance._struct
SupplyAppearance_struct ==
    <<Field("paintScheme", 1),
      Field("unused1", 2),
      Field("damage", 2),
      Field("unused2", 2),
      Field("parachuteStatus", 2),
      Field("unused3", 6),
      Field("isFlaming", 1),
      Field("unused4", 5),
      Field("isFrozen", 1),
      Field("unused5", 1),
      Field("state", 1),
      Field("deployedStatus", 2),
      Field("unused6", 5),
      Field("masked", 1)>>

\* RadioAppearance._struct
RadioAppearance_struct ==
    <<Field("unused1", 21),
      Field("isFrozen", 1),
      Field("unused2", 1),
      Field("state", 1),
      Field("unused3", 8)>>

\* ExpendableAppearance._struct
ExpendableAppearance_struct ==
    <<Field("unused1", 3),
      Field("damage", 2),
      Field("isSmokeEmanating", 1),
      Field("parachuteStatus", 2),
      Field("flareOrSmokeColor", 3),
      Field("isFlaming", 1),
      Field("launchFlashPresent", 1),
      Field("flareOrSmokeStatus", 2),
      Field("isFrozen", 1),
      Field("powerPlantOn", 1),
      Field("state", 1),
      Field("spotChaffStatus", 2),
      Field("unused2", 6),
      Field("masked", 1)>>

\* SensorEmitterAppearance._struct
SensorEmitterAppearance_struct ==
    <<Field("paintScheme", 1),
      Field("mobilityKilled", 1),
      Field("missionKilled", 1),
      Field("damage", 2),
      Field("isSmokeEmanating", 1),
      Field("isEngineEmittingSmoke", 1),
      Field("trailingEffects", 2),
      Field("unused1", 3),
      Field("lightsOn", 1),
      Field("unused2", 2),
      Field("isFlaming", 1),
      Field("antennaRaised", 1),
      Field("camouflageType", 2),
      Field("concealedPosition", 1),
      Field("unused3", 1),
      Field("isFrozen", 1),
      Field("powerPlantOn", 1),
      Field("state", 1),
      Field("tentExtended", 1),
      Field("unused4", 1),
      Field("blackoutLightsOn", 1),
      Field("unused5", 2),
      Field("interiorLightsOn", 1),
      Field("unused6", 2)>>

\* SpreadSpectrum._struct
SpreadSpectrum_struct ==
    <<Field("frequencyHopping", 1),
      Field("pseudoNoise", 1),
      Field("timeHopping", 1),
      Field("padding", 13)>>

----------------------------------------------------------------------------
(* Fixed-layout records nested in the Standard Variable records            *)

Vector3Float_serialize(self) == <<F32(self.x), F32(self.y), F32(self.z)>>

SimulationAddress_serialize(self) == <<U16(self.site), U16(self.application)>>

EventIdentifier_serialize(self) ==
    SimulationAddress_serialize(self.simulationAddress)
    \o <<U16(self.eventNumber)>>

----------------------------------------------------------------------------
(* Class hierarchy of the Standard Variable records                        *)

SVBase == "StandardVariableRecord"
VTP == "VariableTransmitterParameters"
DDR == "DamageDescriptionRecord"
USV == "UnknownStandardVariable"
UVTP == "UnknownVariableTransmitterParameters"
UDD == "UnknownDamageDescription"
HFHQ == "HighFidelityHAVEQUICKRadio"
DEDD == "DirectedEnergyDamageDescription"

UnknownClasses == {USV, UVTP, UDD}
SVClasses == {SVBase, VTP, DDR, USV, UVTP, UDD, HFHQ, DEDD}

\* The class a class is declared to extend ("object" at the root).
BaseOf(cls) ==
    CASE cls = SVBase -> "object"
      [] cls = VTP -> SVBase
      [] cls = DDR -> SVBase
      [] cls = USV -> SVBase
      [] cls = UVTP -> VTP
      [] cls = UDD -> DDR
      [] cls = HFHQ -> VTP
      [] cls = DEDD -> DDR
      [] OTHER -> "object"

RECURSIVE issubclass(_, _)
issubclass(cls, expected) ==
    IF cls = expected THEN TRUE
    ELSE IF cls = "object" THEN FALSE
    ELSE issubclass(BaseOf(cls), expected)

\* isinstance(value, StandardVariableRecord)
IsSVRecord(value) == issubclass(value.cls, SVBase)

----------------------------------------------------------------------------
(* Standard Variable records: marshalledSize and serialize                 *)

\* StandardVariableRecord.marshalledSize: recordType and length fields only
StandardVariableRecord_marshalledSize(self) == 6

\* UnknownStandardVariable / UnknownVariableTransmitterParameters /
\* UnknownDamageDescription .marshalledSize
Unknown_marshalledSize(self) ==
    StandardVariableRecord_marshalledSize(self) + Len(self.data)

\* Faulty variant of HighFidelityHAVEQUICKRadio_marshalledSize: the size of
\* the payload alone, the header left out.
HighFidelityHAVEQUICKRadio_marshalledSize_payloadOnly(self) == 34

HighFidelityHAVEQUICKRadio_marshalledSize(self) == 40

DirectedEnergyDamageDescription_marshalledSize(self) == 40

marshalledSize(self) ==
    CASE self.cls \in UnknownClasses -> Unknown_marshalledSize(self)
      [] self.cls = HFHQ -> HighFidelityHAVEQUICKRadio_marshalledSize(self)
      [] self.cls = DEDD -> DirectedEnergyDamageDescription_marshalledSize(self)

\* The length property of every Standard Variable record.
length(self) == marshalledSize(self)

\* StandardVariableRecord.serialize: the header every subclass writes by
\* calling the parent class.
StandardVariableRecord_serialize(self) ==
    <<U32(self.recordType), U16(length(self))>>

Unknown_serialize(self) ==
    StandardVariableRecord_serialize(self) \o <<self.data>>

HighFidelityHAVEQUICKRadio_serialize(self) ==
    StandardVariableRecord_serialize(self)
    \o <<U16(self.padding1)>>
    \o NetId_serialize(self.netId)
    \o <<U8(self.todTransmitIndicator), U8(self.padding2),
         U32(self.todDelta), U32(self.wod1), U32(self.wod2), U32(self.wod3),
         U32(self.wod4), U32(self.wod5), U32(self.wod6)>>

DirectedEnergyDamageDescription_serialize(self) ==
    StandardVariableRecord_serialize(self)
    \o <<U16(self.padding)>>
    \o Vector3Float_serialize(self.damageLocation)
    \o <<F32(self.damageDiameter), F32(self.temperature),
         U8(self.componentIdentification), U8(self.componentDamageStatus),
         U8(self.componentVisualDamageStatus),
         U8(self.componentVisualSmokeColor)>>
    \o EventIdentifier_serialize(self.eventID)
    \o <<U16(self.padding2)>>

\* sv.serialize(outputStream), dispatched on the class of sv.
serialize(self) ==
    CASE self.cls \in UnknownClasses -> Unknown_serialize(self)
      [] self.cls = HFHQ -> HighFidelityHAVEQUICKRadio_serialize(self)
      [] self.cls = DEDD -> DirectedEnergyDamageDescription_serialize(self)

----------------------------------------------------------------------------
(* Record values                                                           *)

\* cls(recordType, data) for the three Unknown classes
Unknown(cls, recordType, data) ==
    [cls |-> cls, recordType |-> recordType, data |-> data]

NetId(netNumber, frequencyTable, mode, padding) ==
    [netNumber |-> netNumber, frequencyTable |-> frequencyTable,
     mode |-> mode, padding |-> padding]

\* HighFidelityHAVEQUICKRadio(netId, todTransmitIndicator, todDelta, wod1..6)
HighFidelityHAVEQUICKRadio(netId, tti, todDelta, w) ==
    [cls |-> HFHQ, recordType |-> 3000, padding1 |-> 0, netId |-> netId,
     todTransmitIndicator |-> tti, padding2 |-> 0, todDelta |-> todDelta,
     wod1 |-> w[1], wod2 |-> w[2], wod3 |-> w[3],
     wod4 |-> w[4], wod5 |-> w[5], wod6 |-> w[6]]

Vector3Float(x, y, z) == [x |-> x, y |-> y, z |-> z]

EventIdentifier(site, application, eventNumber) ==
    [simulationAddress |-> [site |-> site, application |-> application],
     eventNumber |-> eventNumber]

\* DirectedEnergyDamageDescription(damageLocation, ..., eventID)
DirectedEnergyDamageDescription(loc, diameter, temperature, comp, eventID) ==
    [cls |-> DEDD, recordType |-> 4500, padding |-> 0,
     damageLocation |-> loc, damageDiameter |-> diameter,
     temperature |-> temperature,
     componentIdentification |-> comp[1], componentDamageStatus |-> comp[2],
     componentVisualDamageStatus |-> comp[3],
     componentVisualSmokeColor |-> comp[4],
     eventID |-> eventID, padding2 |-> 0]

\* Instances of the known classes: the constructor defaults and one instance
\* with every field set (float fields as bit patterns: 1065353216 is 1.0,
\* 1073741824 is 2.0, 1056964608 is 0.5, 1133903872 is 300.0).
HFHQRecords ==
    {HighFidelityHAVEQUICKRadio(NetId(0, 0, 0, 0), 0, 0, <<0, 0, 0, 0, 0, 0>>),
     HighFidelityHAVEQUICKRadio(NetId(999, 3, 2, 1), 1, 65536,
                                <<1, 256, 65537, 16777216, 255, BigType>>)}

DEDDRecords ==
    {DirectedEnergyDamageDescription(Vector3Float(0, 0, 0), 0, 0,
                                     <<0, 0, 0, 0>>, EventIdentifier(0, 0, 0)),
     DirectedEnergyDamageDescription(
         Vector3Float(1065353216, 1073741824, 1056964608), 1065353216,
         1133903872, <<1, 2, 255, 4>>, EventIdentifier(1, 65535, 258))}

\* Payloads of unknown records: every byte string up to MaxPayload bytes.
Payloads == SeqsUpTo(ByteVals, MaxPayload)

----------------------------------------------------------------------------
(* Standard Variable records: parse                                        *)

\* Outcome of a parse call: the record, the cursor and how the call ended.
Parsed(rec, p, f) == [rec |-> rec, pos |-> p, fault |-> f]

\* Faulty variant of StandardVariableRecord_parse: the length check left out.
StandardVariableRecord_parse_unchecked(bytelength) ==
    IF bytelength = None THEN "TypeError" ELSE "none"

\* StandardVariableRecord.parse: validates the bytelength argument.
StandardVariableRecord_parse(bytelength) ==
    IF bytelength = None THEN "TypeError"
    ELSE IF bytelength[1] <= 6 THEN "ValueError"
    ELSE "none"

\* Faulty variant of UnknownStandardVariable_parse: the payload read with
\* the whole record length, the 6 header bytes not taken off.
UnknownStandardVariable_parse_wholeLength(self, s, p, bytelength) ==
    IF bytelength = None THEN Parsed(self, p, "AssertionError")
    ELSE LET n == bytelength[1]
         IN  IF bytelength[1] <= 6 THEN Parsed(self, p, "ValueError")
             ELSE IF Remaining(s, p) < n THEN Parsed(self, p, "underrun")
             ELSE Parsed([self EXCEPT !.data = SubSeq(s, p + 1, p + n)],
                         p + n, "none")

\* UnknownStandardVariable.parse(inputStream, bytelength), the cursor of
\* inputStream s being at p.  read_bytes fails when too few bytes remain.
UnknownStandardVariable_parse(self, s, p, bytelength) ==
    IF bytelength = None THEN Parsed(self, p, "AssertionError")
    ELSE LET checked == StandardVariableRecord_parse(bytelength)
             n == bytelength[1] - StandardVariableRecord_marshalledSize(self)
         IN  IF checked # "none" THEN Parsed(self, p, checked)
             ELSE IF Remaining(s, p) < n THEN Parsed(self, p, "underrun")
             ELSE Parsed([self EXCEPT !.data = SubSeq(s, p + 1, p + n)],
                         p + n, "none")

----------------------------------------------------------------------------
(* StandardVariables                                                       *)

\* Outcome of StandardVariables.parse / serialize.
Result(its, p, ws, f) == [items |-> its, pos |-> p, out |-> ws, fault |-> f]

\* Faulty variant of standardVariableRecordCount: a stored count that the
\* last insertion did not update.
standardVariableRecordCount_stale(its) ==
    IF Len(its) > 1 THEN Len(its) - 1 ELSE Len(its)

\* StandardVariables.standardVariableRecordCount (= len(self))
standardVariableRecordCount(its) == Len(its)

\* The loop of StandardVariables.serialize over the items.
RECURSIVE SerializeItems(_, _)
SerializeItems(its, ws) ==
    IF its = <<>> THEN Result(its, 0, ws, "none")
    ELSE IF ~IsSVRecord(Head(its)) THEN Result(its, 0, ws, "AttributeError")
    ELSE SerializeItems(Tail(its), ws \o serialize(Head(its)))

\* StandardVariables.serialize
StandardVariables_serialize(its) ==
    SerializeItems(its, <<U16(standardVariableRecordCount(its))>>)

\* The record StandardVariables.parse creates for an item of this type.
NewItem(recordType) == Unknown(USV, recordType, <<>>)

\* Faulty variant of ParseItems: a stream that runs out ends the loop as
\* if the announced count had been reached.
RECURSIVE ParseItems_truncating(_, _, _, _)
ParseItems_truncating(s, p, n, acc) ==
    IF n = 0 THEN Result(acc, p, <<>>, "none")
    ELSE IF Remaining(s, p) < 4 THEN Result(acc, p, <<>>, "none")
    ELSE IF Remaining(s, p + 4) < 2 THEN Result(acc, p + 4, <<>>, "none")
    ELSE LET recordType == U32At(s, p)
             recordLength == U16At(s, p + 4)
             r == UnknownStandardVariable_parse(NewItem(recordType), s, p + 6,
                                                Some(recordLength))
         IN  IF r.fault = "underrun" THEN Result(acc, r.pos, <<>>, "none")
             ELSE IF r.fault # "none" THEN Result(acc, r.pos, <<>>, r.fault)
             ELSE ParseItems_truncating(s, r.pos, n - 1, Append(acc, r.rec))

\* The loop of StandardVariables.parse: n items left to read, acc parsed.
RECURSIVE ParseItems(_, _, _, _)
ParseItems(s, p, n, acc) ==
    IF n = 0 THEN Result(acc, p, <<>>, "none")
    ELSE IF Remaining(s, p) < 4 THEN Result(acc, p, <<>>, "underrun")
    ELSE IF Remaining(s, p + 4) < 2 THEN Result(acc, p + 4, <<>>, "underrun")
    ELSE LET recordType == U32At(s, p)
             recordLength == U16At(s, p + 4)
             r == UnknownStandardVariable_parse(NewItem(recordType), s, p + 6,
                                                Some(recordLength))
         IN  IF r.fault # "none" THEN Result(acc, r.pos, <<>>, r.fault)
             ELSE ParseItems(s, r.pos, n - 1, Append(acc, r.rec))

\* StandardVariables.parse
StandardVariables_parse(s) ==
    IF Remaining(s, 0) < 2 THEN Result(<<>>, 0, <<>>, "underrun")
    ELSE ParseItems(s, 2, U16At(s, 0), <<>>)

\* list.insert(index, value): the index is taken from the end when negative
\* and clamped to the list.
ListInsert(its, index, value) ==
    LET n == Len(its)
        i == IF index < 0 THEN (IF n + index < 0 THEN 0 ELSE n + index)
             ELSE IF index > n THEN n ELSE index
    IN  SubSeq(its, 1, i) \o <<value>> \o SubSeq(its, i + 1, n)

\* StandardVariables.__init__: list(standardVariables) if standardVariables
\* else []; the elements are stored as given.
StandardVariables_init(standardVariables) ==
    IF standardVariables = <<>> THEN <<>> ELSE standardVariables

\* insert without its type check
StandardVariables_insert_unchecked(its, index, value) ==
    Result(ListInsert(its, index, value), 0, <<>>, "none")

\* StandardVariables.insert
StandardVariables_insert(its, index, value) ==
    IF ~IsSVRecord(value) THEN Result(its, 0, <<>>, "TypeError")
    ELSE Result(ListInsert(its, index, value), 0, <<>>, "none")

\* MutableSequence.append: self.insert(len(self), value)
StandardVariables_append(its, value) ==
    StandardVariables_insert(its, Len(its), value)

\* MutableSequence.extend: for v in values: self.append(v)
RECURSIVE StandardVariables_extend(_, _)
StandardVariables_extend(its, values) ==
    IF values = <<>> THEN Result(its, 0, <<>>, "none")
    ELSE LET r == StandardVariables_append(its, Head(values))
         IN  IF r.fault # "none" THEN r
             ELSE StandardVariables_extend(r.items, Tail(values))

\* StandardVariables.__setitem__: the case pattern is a sequence pattern of
\* three elements, which the pair (key, value) never matches, and the raise
\* after the match statement is reached on every path.
StandardVariables_setitem(its, key, value) ==
    Result(its, 0, <<>>, "TypeError")

\* StandardVariables.__delitem__ with an int index
StandardVariables_delitem(its, index) ==
    LET n == Len(its)
        i == IF index < 0 THEN n + index ELSE index
    IN  IF i < 0 \/ i >= n THEN Result(its, 0, <<>>, "IndexError")
        ELSE Result(SubSeq(its, 1, i) \o SubSeq(its, i + 2, n), 0, <<>>,
                    "none")

----------------------------------------------------------------------------
(* Registries                                                              *)

\* Outcome of a lookup: the class returned and how the call ended.
Lookup(cls, f) == [ret |-> cls, fault |-> f]

\* What a call that raised returns.
NoValue == "None"

\* __SVTypeMap
SVTypeMap == [t \in {0, 3000, 4500} |->
                 CASE t = 0 -> USV
                   [] t = 3000 -> HFHQ
                   [] t = 4500 -> DEDD]

\* getSVClass(recordType, expectedType); expectedType None skips the check.
getSVClass(recordType, expectedType) ==
    IF recordType \notin DOMAIN SVTypeMap THEN Lookup(NoValue, "ValueError")
    ELSE LET RecordType == SVTypeMap[recordType]
         IN  IF expectedType # None /\ ~issubclass(RecordType, expectedType[1])
             THEN Lookup(NoValue, "TypeError")
             ELSE Lookup(RecordType, "none")

\* The case clauses of getEntityAppearanceClass, in source order; any is
\* TRUE for a clause whose domain pattern is the wildcard.
Rule(kind, any, domain, cls) ==
    [kind |-> kind, any |-> any, domain |-> domain, cls |-> cls]

\* Faulty variant of AppearanceRules: a wildcard clause for kind 1 ahead of
\* the domain clauses.
AppearanceRules_wildcardFirst ==
    <<Rule(0, TRUE, 0, "UnknownAppearance"),
      Rule(1, TRUE, 0, "LandPlatformAppearance"),
      Rule(1, FALSE, 2, "AirPlatformAppearance"),
      Rule(2, TRUE, 0, "MunitionAppearance"),
      Rule(3, TRUE, 0, "HumanLifeFormAppearance"),
      Rule(4, TRUE, 0, "EnvironmentalAppearance"),
      Rule(5, TRUE, 0, "CulturalFeatureAppearance"),
      Rule(6, TRUE, 0, "SupplyAppearance"),
      Rule(7, TRUE, 0, "RadioAppearance"),
      Rule(8, TRUE, 0, "ExpendableAppearance"),
      Rule(9, TRUE, 0, "SensorEmitterAppearance")>>

AppearanceRules ==
    <<Rule(0, TRUE, 0, "UnknownAppearance"),
      Rule(1, FALSE, 1, "LandPlatformAppearance"),
      Rule(1, FALSE, 2, "AirPlatformAppearance"),
      Rule(1, FALSE, 3, "SurfacePlatformAppearance"),
      Rule(1, FALSE, 4, "SubsurfacePlatformAppearance"),
      Rule(1, FALSE, 5, "SpacePlatformAppearance"),
      Rule(2, TRUE, 0, "MunitionAppearance"),
      Rule(3, TRUE, 0, "HumanLifeFormAppearance"),
      Rule(4, TRUE, 0, "EnvironmentalAppearance"),
      Rule(5, TRUE, 0, "CulturalFeatureAppearance"),
      Rule(6, TRUE, 0, "SupplyAppearance"),
      Rule(7, TRUE, 0, "RadioAppearance"),
      Rule(8, TRUE, 0, "ExpendableAppearance"),
      Rule(9, TRUE, 0, "SensorEmitterAppearance")>>

\* Whether the subject (entityType, domain) matches a case clause.
Matches(rule, entityType, domain) ==
    /\ rule.kind = entityType
    /\ rule.any \/ domain = Some(rule.domain)

\* The match statement: the first clause that matches decides, and the
\* final "case _" returns UnknownAppearance.
RECURSIVE FirstMatch(_, _, _)
FirstMatch(rules, entityType, domain) ==
    IF rules = <<>> THEN "UnknownAppearance"
    ELSE IF Matches(Head(rules), entityType, domain) THEN Head(rules).cls
    ELSE FirstMatch(Tail(rules), entityType, domain)

\* getEntityAppearanceClass(entityType, domain)
getEntityAppearanceClass(entityType, domain) ==
    Lookup(FirstMatch(AppearanceRules, entityType, domain), "none")

----------------------------------------------------------------------------
(* Inputs                                                                  *)

\* Standard Variable records handed to the list operations.
SVRecords ==
    {Unknown(USV, 0, <<>>), Unknown(USV, 7, <<170>>),
     Unknown(UVTP, BigType, <<170, 187>>), Unknown(UDD, 4500, <<187>>)}
    \cup HFHQRecords \cup DEDDRecords

\* A value that is not a StandardVariableRecord.
NotARecord == [cls |-> "int", value |-> 42]

Values == SVRecords \cup {NotARecord}

\* Records serialized on their own: every class, every payload.
AllSVRecords ==
    {Unknown(c, t, d) : c \in UnknownClasses, t \in {0, 7, BigType},
                        d \in Payloads}
    \cup HFHQRecords \cup DEDDRecords

\* Record types met on the wire, registered or not.
RecordTypes == {0, 1, 7, 2999, 3000, 4500, 4501, BigType}

ExpectedTypes == {None} \cup {Some(c) : c \in SVClasses}

\* One record on the wire: type, length field, then the bytes that follow.
Wire(recordType, len, payload) == U32(recordType) \o U16(len) \o payload

\* Records met on the wire: unknown types with every payload (header-only
\* included), the known types as their classes write them, length fields
\* below the header size, and a length field one more than what follows.
WireRecords ==
    {Wire(BigType, 6 + Len(d), d) : d \in Payloads}
    \cup {Wire(7, 7, <<187>>)}
    \cup {Bytes(serialize(r)) : r \in HFHQRecords \cup DEDDRecords}
    \cup {Wire(7, l, <<170>>) : l \in {0, 5}}
    \cup {Wire(7, 8, <<170>>)}

\* Wire streams: a count field, then up to MaxWire records; the count is
\* the number of records that follow or one more.
WireStreams ==
    UNION {{U16(c) \o Flatten(rs) : c \in {Len(rs), Len(rs) + 1}} :
           rs \in SeqsUpTo(WireRecords, MaxWire)}

----------------------------------------------------------------------------------------------------------------------------------------
(* Operations on a StandardVariables                                       *)

\* The state after a list operation that ended as r.
Applied(r) ==
    /\ items' = r.items
    /\ fault' = r.fault
    /\ inp' = <<>>
    /\ pos' = 0
    /\ out' = <<>>
    /\ arg' = None
    /\ ret' = NoValue
    /\ UNCHANGED shared

Insert(index, value) ==
    /\ Len(items) < MaxItems
    /\ op' = "insert"
    /\ Applied(StandardVariables_insert(items, index, value))

AppendItem(value) ==
    /\ Len(items) < MaxItems
    /\ op' = "append"
    /\ Applied(StandardVariables_append(items, value))

Extend(values) ==
    /\ Len(items) + Len(values) <= MaxItems
    /\ op' = "extend"
    /\ Applied(StandardVariables_extend(items, values))

SetItem(key, value) ==
    /\ op' = "setitem"
    /\ Applied(StandardVariables_setitem(items, key, value))

DelItem(index) ==
    /\ op' = "delitem"
    /\ Applied(StandardVariables_delitem(items, index))

\* Reading the standardVariableRecordCount property.
Count ==
    /\ op' = "count"
    /\ ret' = standardVariableRecordCount(items)
    /\ fault' = "none"
    /\ inp' = <<>>
    /\ pos' = 0
    /\ out' = <<>>
    /\ arg' = None
    /\ UNCHANGED <<items, shared>>

\* StandardVariables.serialize to an empty output stream.
Serialize ==
    /\ op' = "serialize"
    /\ out' = StandardVariables_serialize(items).out
    /\ fault' = StandardVariables_serialize(items).fault
    /\ inp' = <<>>
    /\ pos' = 0
    /\ arg' = None
    /\ ret' = NoValue
    /\ UNCHANGED <<items, shared>>

\* StandardVariables.parse of the stream s; from names where s came from.
Parse(s, from) ==
    LET r == StandardVariables_parse(s)
    IN  /\ op' = "parse"
        /\ items' = r.items
        /\ pos' = r.pos
        /\ fault' = r.fault
        /\ inp' = s
        /\ arg' = Some(from)
        /\ out' = <<>>
        /\ ret' = NoValue
        /\ UNCHANGED shared

\* Parsing the bytes the last serialize wrote.
ParseSerialized ==
    /\ op = "serialize"
    /\ fault = "none"
    /\ Parse(Bytes(out), "serialized")

\* Parsing the bytes waiting on the wire.
ParseWire ==
    /\ op = "init"
    /\ Parse(inp, "wire")

----------------------------------------------------------------------------
(* Calls that take no StandardVariables                                    *)

\* The state after a call with arguments a that ended as r, having made
\* the writes ws.
Called(a, r, ws) ==
    /\ arg' = a
    /\ ret' = r.ret
    /\ fault' = r.fault
    /\ out' = ws
    /\ inp' = <<>>
    /\ pos' = 0
    /\ UNCHANGED <<items, shared>>

\* sv.serialize(outputStream) on an empty output stream
SerializeRecord(sv) ==
    /\ op' = "sv.serialize"
    /\ Called(Some(sv), Lookup(NoValue, "none"), serialize(sv))

GetSVClass(recordType, expectedType) ==
    /\ op' = "getSVClass"
    /\ Called(<<recordType, expectedType>>,
              getSVClass(recordType, expectedType), <<>>)

\* getSVClass(recordType): expectedType takes its default.
GetSVClassDefault(recordType) ==
    /\ op' = "getSVClass"
    /\ Called(<<recordType>>, getSVClass(recordType, Some(SVBase)), <<>>)

GetEntityAppearanceClass(entityType, domain) ==
    /\ op' = "getEntityAppearanceClass"
    /\ Called(<<entityType, domain>>,
              getEntityAppearanceClass(entityType, domain), <<>>)

Kinds == 0 .. MaxKind
Domains == {None} \cup {Some(d) : d \in 0 .. MaxDomain}

----------------------------------------------------------------------------
(* Variable Parameter records (opendis/record/entity_info/__init__.py).    *)
(* An object is a record of its attributes: an attribute that was never    *)
(* assigned is a field the record does not have, and reading it raises     *)
(* AttributeError.                                                         *)

VPBase == "VariableParameterRecord"
AP == "ArticulatedPart"
ATP == "AttachedPart"
UVP == "UnknownVariableParameterRecord"

\* The classes declared with VariableParameterRecord as their base.
VariableParameterRecord_subclasses == {AP, ATP, UVP}

hasattr(obj, name) == name \in DOMAIN obj

\* obj with the attribute name set to value.
setattr(obj, name, value) ==
    [n \in DOMAIN obj \cup {name} |-> IF n = name THEN value ELSE obj[n]]

\* What a serialize call did: the writes it made and how it ended.
Written(ws, f) == [out |-> ws, fault |-> f]

\* base.Record.serialize and base.Record.parse, reached through super():
\* the root of the record classes writes and reads nothing.
Record_serialize(self) == <<>>

Record_parse(self, s, p) == p

\* The class objects.  ArticulatedPart and AttachedPart give recordType a
\* value; VariableParameterRecord and the placeholder only annotate it.
ArticulatedPart_class == [name |-> AP, recordType |-> 0]

AttachedPart_class == [name |-> ATP, recordType |-> 1]

UnknownVariableParameterRecord_class == [name |-> UVP]

\* Sixteen zero bytes, the default data of the placeholder.
ZeroBytes(n) == [i \in 1 .. n |-> 0]

\* An instance reads through to the attributes of its class.
ArticulatedPart(changeIndicator, partAttachedTo, parameterType, parameterValue) ==
    [cls |-> AP, recordType |-> ArticulatedPart_class.recordType,
     changeIndicator |-> changeIndicator, partAttachedTo |-> partAttachedTo,
     parameterType |-> parameterType, parameterValue |-> parameterValue]

AttachedPart(detachedIndicator, partAttachedTo, parameterType, attachedPartType) ==
    [cls |-> ATP, recordType |-> AttachedPart_class.recordType,
     detachedIndicator |-> detachedIndicator,
     partAttachedTo |-> partAttachedTo, parameterType |-> parameterType,
     attachedPartType |-> attachedPartType]

\* vrClass(data) for a placeholder class vrClass.
UnknownVariableParameterRecord(vrClass, data) ==
    IF hasattr(vrClass, "recordType")
    THEN [cls |-> UVP, recordType |-> vrClass.recordType, data |-> data]
    ELSE [cls |-> UVP, data |-> data]

VariableParameterRecord_marshalledSize(self) == 16

VariableParameterRecord_serialize(self) ==
    IF ~hasattr(self, "recordType")
    THEN Written(Record_serialize(self), "AttributeError")
    ELSE Written(Record_serialize(self) \o <<U8(self.recordType)>>, "none")

ArticulatedPart_serialize(self) ==
    LET head == VariableParameterRecord_serialize(self)
    IN  IF head.fault # "none" THEN head
        ELSE Written(head.out \o <<U8(self.changeIndicator),
                                   U16(self.partAttachedTo),
                                   U32(self.parameterType),
                                   F32(self.parameterValue)>>, "none")

\* AttachedPart.__init__ never assigns parameterValue; parse does.
AttachedPart_serialize(self) ==
    LET head == VariableParameterRecord_serialize(self)
        body == head.out \o <<U8(self.detachedIndicator),
                              U16(self.partAttachedTo),
                              U32(self.parameterType)>>
    IN  IF head.fault # "none" THEN head
        ELSE IF ~hasattr(self, "parameterValue")
        THEN Written(body, "AttributeError")
        ELSE Written(body \o <<F32(self.parameterValue)>>, "none")

UnknownVariableParameterRecord_serialize(self) ==
    LET head == VariableParameterRecord_serialize(self)
    IN  IF head.fault # "none" THEN head
        ELSE Written(head.out \o <<self.data>>, "none")

VP_serialize(self) ==
    CASE self.cls = AP -> ArticulatedPart_serialize(self)
      [] self.cls = ATP -> AttachedPart_serialize(self)
      [] self.cls = UVP -> UnknownVariableParameterRecord_serialize(self)

\* The unsigned big-endian integer of n bytes after the first p bytes of s.
UIntAt(s, p, n) ==
    CASE n = 1 -> s[p + 1]
      [] n = 2 -> U16At(s, p)
      [] n = 4 -> U32At(s, p)

\* self.name = inputStream.read_*() of n bytes, after the reads st: the
\* reader raises when fewer than n bytes are left, and a parse that has
\* raised reads no further.
ReadField(st, s, name, n) ==
    IF st.fault # "none" THEN st
    ELSE IF Remaining(s, st.pos) < n THEN [st EXCEPT !.fault = "underrun"]
    ELSE Parsed(setattr(st.rec, name, UIntAt(s, st.pos, n)),
                st.pos + n, "none")

ArticulatedPart_parse(self, s, p) ==
    LET r1 == ReadField(Parsed(self, p, "none"), s, "changeIndicator", 1)
        r2 == ReadField(r1, s, "partAttachedTo", 2)
        r3 == ReadField(r2, s, "parameterType", 4)
    IN  ReadField(r3, s, "parameterValue", 4)

AttachedPart_parse(self, s, p) ==
    LET r0 == ReadField(Parsed(self, p, "none"), s, "recordType", 1)
        r1 == ReadField(r0, s, "detachedIndicator", 1)
        r2 == ReadField(r1, s, "partAttachedTo", 2)
        r3 == ReadField(r2, s, "parameterType", 4)
    IN  ReadField(r3, s, "parameterValue", 4)

\* read_bytes(marshalledSize()) after super().parse(inputStream).
UnknownVariableParameterRecord_parse(self, s, p) ==
    LET q == Record_parse(self, s, p)
        n == VariableParameterRecord_marshalledSize(self)
    IN  IF Remaining(s, q) < n THEN Parsed(self, q, "underrun")
        ELSE Parsed(setattr(self, "data", SubSeq(s, q + 1, q + n)),
                    q + n, "none")

VP_parse(self, s, p) ==
    CASE self.cls = AP -> ArticulatedPart_parse(self, s, p)
      [] self.cls = ATP -> AttachedPart_parse(self, s, p)
      [] self.cls = UVP -> UnknownVariableParameterRecord_parse(self, s, p)

\* __variableParameterClasses
variableParameterClasses ==
    [t \in {0, 1} |-> IF t = 0 THEN ArticulatedPart_class
                      ELSE AttachedPart_class]

\* isinstance(obj, cls): whether obj was made by calling cls.  A class
\* object was made by no record class.
isinstance(obj, cls) == hasattr(obj, "cls") /\ obj.cls = cls.name

\* getVariableParameterClass(recordType) for an int recordType.
getVariableParameterClass(recordType) ==
    LET vrClass == IF recordType \in DOMAIN variableParameterClasses
                   THEN variableParameterClasses[recordType]
                   ELSE UnknownVariableParameterRecord_class
    IN  IF recordType < 0 THEN Lookup(NoValue, "ValueError")
        ELSE IF isinstance(vrClass, UnknownVariableParameterRecord_class)
        THEN Lookup(setattr(vrClass, "recordType", recordType), "none")
        ELSE Lookup(vrClass, "none")

\* vrClass() with the default arguments of its constructor.
VP_new(vrClass) ==
    CASE vrClass.name = AP -> ArticulatedPart(0, 0, 0, 0)
      [] vrClass.name = ATP -> AttachedPart(0, 0, 0, "EntityType")
      [] vrClass.name = UVP ->
             UnknownVariableParameterRecord(vrClass, ZeroBytes(16))

----------------------------------------------------------------------------
(* Calls on the Variable Parameter records                                 *)

\* Record types looked up: a negative one, the registered 0 and 1, others.
VPTypes == {0 - 1, 0, 1, 2, 7, 255}

\* A 15-byte payload whose bytes all differ, counting up from b.
VPPayload(b) == [i \in 1 .. 15 |-> b + i]

\* One 16-byte slot on the wire: the record type byte, then the payload.
VPSlot(t, b) == U8(t) \o VPPayload(b)

\* Streams holding one slot, or one slot and the slot that follows it.
VPStreams ==
    {VPSlot(t, b) : t \in VPTypes \ {0 - 1}, b \in {0, 100}}
    \cup {VPSlot(t, b) \o VPSlot(u, 200) : t \in VPTypes \ {0 - 1},
                                           b \in {0, 100}, u \in {0, 7}}

\* Instances as their constructors and the resolved classes make them.
VPRecords ==
    {ArticulatedPart(0, 0, 0, 0),
     ArticulatedPart(255, 513, BigType, 1065353216),
     AttachedPart(0, 0, 0, "EntityType"),
     AttachedPart(1, 2, 3, "EntityType")}
    \cup {VP_new(getVariableParameterClass(t).ret) : t \in {2, 7, 255}}
    \cup {UnknownVariableParameterRecord(getVariableParameterClass(7).ret,
                                         VPPayload(0))}

GetVariableParameterClass(recordType) ==
    /\ op' = "getVariableParameterClass"
    /\ Called(<<recordType>>, getVariableParameterClass(recordType), <<>>)

\* vp.marshalledSize(), then vp.serialize(outputStream) on an empty stream.
SerializeVP(vp) ==
    /\ op' = "vp.serialize"
    /\ arg' = Some(vp)
    /\ ret' = VariableParameterRecord_marshalledSize(vp)
    /\ out' = VP_serialize(vp).out
    /\ fault' = VP_serialize(vp).fault
    /\ inp' = <<>>
    /\ pos' = 0
    /\ UNCHANGED <<items, shared>>

\* Decoding the slot at the head of s: the record type byte is read, its
\* class resolved and made with default arguments, and parse called.
DecodeVP(s) ==
    LET recordType == UIntAt(s, 0, 1)
        vp == VP_new(getVariableParameterClass(recordType).ret)
        r == VP_parse(vp, s, 1)
    IN  /\ op' = "vp.parse"
        /\ arg' = Some(recordType)
        /\ ret' = r.rec
        /\ pos' = r.pos
        /\ fault' = r.fault
        /\ inp' = s
        /\ out' = <<>>
        /\ UNCHANGED <<items, shared>>

\* Serializing the record the last decode returned.
SerializeDecodedVP ==
    /\ op = "vp.parse"
    /\ fault = "none"
    /\ op' = "vp.reserialize"
    /\ out' = VP_serialize(ret).out
    /\ fault' = VP_serialize(ret).fault
    /\ UNCHANGED <<items, inp, pos, arg, ret, shared>>

----------------------------------------------------------------------------
(* Concurrent callers of the registries.  The registries and the class     *)
(* objects are shared; a caller runs one call at a time, a step at a time, *)
(* and the steps of different callers interleave freely.                   *)

\* The Variable Parameter class objects that exist once the module is
\* initialised; a class object is referred to by its position here.
Heap0 == <<ArticulatedPart_class, AttachedPart_class>>

\* __SVTypeMap and __variableParameterClasses once the module is
\* initialised, a Variable Parameter class held by reference.
Registries0 ==
    [SVTypeMap |-> SVTypeMap,
     variableParameterClasses |->
         [t \in DOMAIN variableParameterClasses |->
              CHOOSE i \in DOMAIN Heap0 : Heap0[i] = variableParameterClasses[t]]]

\* Faulty variant of dict_get: dict.setdefault, which stores the default
\* under a key the dict does not hold.
dict_setdefault(d, key, default) ==
    [value |-> IF key \in DOMAIN d THEN d[key] ELSE default,
     dict |-> [k \in DOMAIN d \cup {key} |->
                   IF k \in DOMAIN d THEN d[k] ELSE default]]

\* d.get(key, default): the value found and the dict as the call leaves it.
dict_get(d, key, default) ==
    [value |-> IF key \in DOMAIN d THEN d[key] ELSE default, dict |-> d]

\* A caller between calls.  local and vrClass are the local names of
\* getVariableParameterClass, handed the class last returned to the caller
\* (0: none), result the name or the fault the last call ended with.
\* argType is type(recordType).__name__ of the argument in args: an
\* argument that is not an integer is held as the integer it would
\* compare or convert to.
Idle ==
    [pc |-> "idle", fn |-> "none", args |-> <<>>, argType |-> "int",
     local |-> 0, vrClass |-> 0, handed |-> 0, result |-> "None", calls |-> 0]

\* The caller st entering fn with args.
Entered(st, fn, args, pc) ==
    [st EXCEPT !.pc = pc, !.fn = fn, !.args = args, !.argType = "int",
               !.local = 0, !.vrClass = 0, !.result = "None",
               !.calls = @ + 1]

\* Number of calls the callers 1 .. n have entered.
RECURSIVE CallsMade(_)
CallsMade(n) == IF n = 0 THEN 0 ELSE callers[n].calls + CallsMade(n - 1)

CanCall(c) ==
    /\ callers[c].pc \in {"idle", "done"}
    /\ CallsMade(Len(callers)) < MaxCalls

CallGetVariableParameterClass(c, recordType) ==
    /\ CanCall(c)
    /\ callers' = [callers EXCEPT ![c] =
           Entered(@, "getVariableParameterClass", <<recordType>>, "class")]
    /\ UNCHANGED <<registries, heap, codec>>

\* getVariableParameterClass(v) with an argument v that is not an int, such
\* as "7", 1.0 or None.
CallGetVariableParameterClassWith(c, v) ==
    /\ CanCall(c)
    /\ callers' = [callers EXCEPT ![c] =
           [Entered(@, "getVariableParameterClass", <<v.value>>, "class")
               EXCEPT !.argType = v.type]]
    /\ UNCHANGED <<registries, heap, codec>>

\* Decoding a slot of the caller's own stream: the record type byte is
\* read and resolved, then the class made and its parse called.
CallDecode(c, recordType) ==
    /\ CanCall(c)
    /\ callers' = [callers EXCEPT ![c] =
           Entered(@, "decode", <<recordType>>, "class")]
    /\ UNCHANGED <<registries, heap, codec>>

\* class UnknownVariableParameterRecord(VariableParameterRecord): ...
DefineLocalClass(c) ==
    /\ callers[c].pc = "class"
    /\ heap' = Append(heap, UnknownVariableParameterRecord_class)
    /\ callers' = [callers EXCEPT ![c].local = Len(heap) + 1,
                                  ![c].pc = "check"]
    /\ UNCHANGED <<registries, codec>>

\* isinstance(recordType, int): bool is a subclass of int.
isinstance_int(typeName) == typeName \in {"int", "bool"}

\* Faulty variant of CheckRecordType: only the sign is tested.
CheckRecordType_signOnly(c) ==
    /\ callers[c].pc = "check"
    /\ callers' = IF callers[c].args[1] < 0
                  THEN [callers EXCEPT ![c].pc = "done",
                                       ![c].result = "ValueError"]
                  ELSE [callers EXCEPT ![c].pc = "get"]
    /\ UNCHANGED <<registries, heap, codec>>

\* if not isinstance(recordType, int) or recordType < 0: raise ValueError
CheckRecordType(c) ==
    /\ callers[c].pc = "check"
    /\ callers' = IF \/ ~isinstance_int(callers[c].argType)
                     \/ callers[c].args[1] < 0
                  THEN [callers EXCEPT ![c].pc = "done",
                                       ![c].result = "ValueError"]
                  ELSE [callers EXCEPT ![c].pc = "get"]
    /\ UNCHANGED <<registries, heap, codec>>

\* vrClass = __variableParameterClasses.get(recordType, Unknown...)
LookUpClass(c) ==
    LET got == dict_get(registries.variableParameterClasses,
                        callers[c].args[1], callers[c].local)
    IN  /\ callers[c].pc = "get"
        /\ callers' = [callers EXCEPT ![c].vrClass = got.value,
                                      ![c].pc = "isinstance"]
        /\ registries' =
               [registries EXCEPT !.variableParameterClasses = got.dict]
        /\ UNCHANGED <<heap, codec>>

\* if isinstance(vrClass, Unknown...): vrClass.recordType = recordType
SetRecordType(c) ==
    /\ callers[c].pc = "isinstance"
    /\ heap' = IF isinstance(heap[callers[c].vrClass],
                             heap[callers[c].local])
               THEN [heap EXCEPT ![callers[c].vrClass] =
                        setattr(@, "recordType", callers[c].args[1])]
               ELSE heap
    /\ callers' = [callers EXCEPT ![c].pc = "return"]
    /\ UNCHANGED <<registries, codec>>

\* assert issubclass(vrClass, VariableParameterRecord); return vrClass
ReturnClass(c) ==
    /\ callers[c].pc = "return"
    /\ callers' =
           IF heap[callers[c].vrClass].name
                  \notin VariableParameterRecord_subclasses
           THEN [callers EXCEPT ![c].pc = "done",
                                ![c].result = "AssertionError"]
           ELSE [callers EXCEPT
                    ![c].handed = callers[c].vrClass,
                    ![c].result = heap[callers[c].vrClass].name,
                    ![c].pc = IF callers[c].fn = "decode" THEN "parse"
                              ELSE "done"]
    /\ UNCHANGED <<registries, heap, codec>>

\* vrClass().parse(inputStream) on the caller's own stream, a slot of the
\* resolved type followed by another slot.
ParseSlot(c) ==
    LET s == U8(callers[c].args[1]) \o [i \in 1 .. 31 |-> i]
        vp == VP_new(heap[callers[c].handed])
    IN  /\ callers[c].pc = "parse"
        /\ callers' = [callers EXCEPT ![c].pc = "done",
                                      ![c].result = VP_parse(vp, s, 1).fault]
        /\ UNCHANGED <<registries, heap, codec>>

\* getSVClass(recordType): __SVTypeMap is read, nothing is written.
CallGetSVClass(c, recordType) ==
    /\ CanCall(c)
    /\ callers' = [callers EXCEPT ![c] =
           [Entered(@, "getSVClass", <<recordType>>, "done")
               EXCEPT !.result =
                   IF recordType \notin DOMAIN registries.SVTypeMap
                   THEN "ValueError"
                   ELSE registries.SVTypeMap[recordType]]]
    /\ UNCHANGED <<registries, heap, codec>>

\* getEntityAppearanceClass(entityType, domain): reads no shared object.
CallGetEntityAppearanceClass(c, entityType, domain) ==
    /\ CanCall(c)
    /\ callers' = [callers EXCEPT ![c] =
           [Entered(@, "getEntityAppearanceClass", <<entityType>>, "done")
               EXCEPT !.result =
                   getEntityAppearanceClass(entityType, domain).ret]]
    /\ UNCHANGED <<registries, heap, codec>>

----------------------------------------------------------------------------
(* Fixed-layout records of opendis/record/__init__.py, identifier.py and   *)
(* entity_info: the size each class reports and the writes it makes.       *)

EulerAngles(psi, theta, phi) == [psi |-> psi, theta |-> theta, phi |-> phi]

EulerAngles_marshalledSize(self) == 12

EulerAngles_serialize(self) == <<F32(self.psi), F32(self.theta), F32(self.phi)>>

Vector3Float_marshalledSize(self) == 12

SpreadSpectrum(frequencyHopping, pseudoNoise, timeHopping, padding) ==
    [frequencyHopping |-> frequencyHopping, pseudoNoise |-> pseudoNoise,
     timeHopping |-> timeHopping, padding |-> padding]

SpreadSpectrum_marshalledSize(self) ==
    Bitfield_marshalledSize(SpreadSpectrum_struct)

SpreadSpectrum_serialize(self) ==
    <<Bitfield_serialize(SpreadSpectrum_struct,
          <<self.frequencyHopping, self.pseudoNoise, self.timeHopping,
            self.padding>>)>>

NetId_marshalledSize(self) == Bitfield_marshalledSize(NetId_struct)

ModulationType(spreadSpectrum, majorModulation, detail, radioSystem) ==
    [spreadSpectrum |-> spreadSpectrum, majorModulation |-> majorModulation,
     detail |-> detail, radioSystem |-> radioSystem]

ModulationType_marshalledSize(self) ==
    0 + SpreadSpectrum_marshalledSize(self.spreadSpectrum) + 2 + 2 + 2

ModulationType_serialize(self) ==
    SpreadSpectrum_serialize(self.spreadSpectrum)
    \o <<U16(self.majorModulation), U16(self.detail), U16(self.radioSystem)>>

\* GenericRadio and SimpleIntercomRadio hold nothing.
GenericRadio_marshalledSize(self) == 0

GenericRadio_serialize(self) == <<>>

\* UnknownRadio(data) and UnknownAntennaPattern(data)
UnknownRadio_marshalledSize(self) == Len(self.data)

UnknownRadio_serialize(self) == <<self.data>>

UnknownAntennaPattern_marshalledSize(self) == Len(self.data)

UnknownAntennaPattern_serialize(self) == <<self.data>>

BasicHaveQuickMP(net_id, mwod_index, time_of_day) ==
    [net_id |-> net_id, mwod_index |-> mwod_index, reserved16 |-> 0,
     reserved8_1 |-> 0, reserved8_2 |-> 0, time_of_day |-> time_of_day,
     padding |-> 0]

BasicHaveQuickMP_marshalledSize(self) == 16

BasicHaveQuickMP_serialize(self) ==
    NetId_serialize(self.net_id)
    \o <<U16(self.mwod_index), U16(self.reserved16), U8(self.reserved8_1),
         U8(self.reserved8_2), U32(self.time_of_day), U32(self.padding)>>

CCTTSincgarsMP(fh_net_id, start_of_message, fh_sync_time_offset) ==
    [fh_net_id |-> fh_net_id, hop_set_id |-> 0, lockout_set_id |-> 0,
     start_of_message |-> start_of_message, clear_channel |-> 0,
     fh_sync_time_offset |-> fh_sync_time_offset,
     transmission_security_key |-> 0, padding |-> 0]

CCTTSincgarsMP_marshalledSize(self) == 16

CCTTSincgarsMP_serialize(self) ==
    <<U16(self.fh_net_id), U16(self.hop_set_id), U16(self.lockout_set_id),
      U8(self.start_of_message), U8(self.clear_channel),
      U32(self.fh_sync_time_offset), U16(self.transmission_security_key),
      U16(self.padding)>>

BeamAntennaPattern(beamDirection, azimuthBeamwidth, referenceSystem, phase) ==
    [beamDirection |-> beamDirection, azimuthBeamwidth |-> azimuthBeamwidth,
     elevationBeamwidth |-> 0, referenceSystem |-> referenceSystem,
     padding1 |-> 0, padding2 |-> 0, ez |-> 0, ex |-> 0, phase |-> phase,
     padding3 |-> 0]

BeamAntennaPattern_marshalledSize(self) == 40

BeamAntennaPattern_serialize(self) ==
    EulerAngles_serialize(self.beamDirection)
    \o <<F32(self.azimuthBeamwidth), F32(self.elevationBeamwidth),
         U8(self.referenceSystem), U8(self.padding1), U16(self.padding2),
         F32(self.ez), F32(self.ex), F32(self.phase), U32(self.padding3)>>

\* identifier.py
LiveSimulationAddress_marshalledSize(self) == 2

LiveSimulationAddress_serialize(self) == <<U8(self.site), U8(self.application)>>

SimulationAddress_marshalledSize(self) == 4

\* simulationAddress.marshalledSize() and .serialize(): the address held is
\* of either class, told apart by the live attribute.
AddressSize(address) ==
    IF address.live THEN LiveSimulationAddress_marshalledSize(address)
    ELSE SimulationAddress_marshalledSize(address)

Address_serialize(address) ==
    IF address.live THEN LiveSimulationAddress_serialize(address)
    ELSE SimulationAddress_serialize(address)

LiveEventIdentifier(live, site, application, eventNumber) ==
    [simulationAddress |->
         [live |-> live, site |-> site, application |-> application],
     eventNumber |-> eventNumber]

LiveEventIdentifier_marshalledSize(self) ==
    AddressSize(self.simulationAddress) + 2

LiveEventIdentifier_serialize(self) ==
    Address_serialize(self.simulationAddress)
    \o <<U16(self.eventNumber)>>

EventIdentifier_marshalledSize(self) ==
    SimulationAddress_marshalledSize(self.simulationAddress) + 2

\* Appearance records: a 32-bit record whatever the class.
AppearanceRecord_marshalledSize(self) == 4

UnknownAppearance(data) == [cls |-> "UnknownAppearance", data |-> data]

UnknownAppearance_serialize(self) == <<self.data>>

\* LandPlatformAppearance with the attribute values in declaration order;
\* an attribute is read by the name of its field.
LandPlatformAppearance(values) ==
    [cls |-> "LandPlatformAppearance",
     attrs |-> [n \in {LandPlatformAppearance_struct[i].name :
                          i \in DOMAIN LandPlatformAppearance_struct} |->
                   values[CHOOSE i \in DOMAIN LandPlatformAppearance_struct :
                              LandPlatformAppearance_struct[i].name = n]]]

\* The attributes LandPlatformAppearance.serialize hands to _struct, in
\* the order of the call.
LandPlatformAppearance_arguments ==
    <<"paintScheme", "mobilityKilled", "firepowerKilled", "damage",
      "isSmokeEmanating", "isEngineEmittingSmoke", "trailingDustCloud",
      "primaryHatch", "headLightsOn", "tailLightsOn", "brakeLightsOn",
      "isFlaming", "operational", "camouflageType", "concealedPosition",
      "unused", "isFrozen", "powerPlantOn", "state", "tentExtended",
      "rampExtended", "blackoutLightsOn", "blackoutBrakeLightsOn",
      "spotLightOn", "interiorLightsOn", "occupantsSurrendered", "cloaked">>

LandPlatformAppearance_serialize(self) ==
    <<Bitfield_serialize(LandPlatformAppearance_struct,
          [i \in DOMAIN LandPlatformAppearance_arguments |->
               self.attrs[LandPlatformAppearance_arguments[i]]])>>

Appearance_serialize(self) ==
    CASE self.cls = "UnknownAppearance" -> UnknownAppearance_serialize(self)
      [] self.cls = "LandPlatformAppearance" ->
             LandPlatformAppearance_serialize(self)

\* EntityType (opendis.record.common): kind, domain, country, category,
\* subcategory, specific and extra, 8 bytes.
EntityType(entityKind, domain, country) ==
    [entityKind |-> entityKind, domain |-> domain, country |-> country,
     category |-> 0, subcategory |-> 0, specific |-> 0, extra |-> 0]

EntityType_serialize(self) ==
    <<U8(self.entityKind), U8(self.domain), U16(self.country),
      U8(self.category), U8(self.subcategory), U8(self.specific),
      U8(self.extra)>>

SilentEntitySystem(entityCount, entityType, entityAppearances) ==
    [entityCount |-> entityCount, entityType |-> entityType,
     entityAppearances |-> entityAppearances]

SilentEntitySystem_appearanceRecordCount(self) == Len(self.entityAppearances)

SilentEntitySystem_marshalledSize(self) ==
    12 + SilentEntitySystem_appearanceRecordCount(self) * 4

RECURSIVE SerializeAppearances(_)
SerializeAppearances(records) ==
    IF records = <<>> THEN <<>>
    ELSE Appearance_serialize(Head(records))
         \o SerializeAppearances(Tail(records))

SilentEntitySystem_serialize(self) ==
    <<U16(self.entityCount),
      U16(SilentEntitySystem_appearanceRecordCount(self))>>
    \o EntityType_serialize(self.entityType)
    \o SerializeAppearances(self.entityAppearances)

----------------------------------------------------------------------------
(* The appearance record classes (entity_info/appearance.py).  A class is  *)
(* told by its layout, the attributes __init__ sets, the attributes        *)
(* serialize hands to the layout in the order of the call, and the         *)
(* assignments parse makes from the fields it read.  True and False are 1  *)
(* and 0.                                                                  *)

\* self.name = param (or the constant default, param being "").
Attribute(name, param, default) ==
    [name |-> name, param |-> param, default |-> default]

\* self.attr = record_bitfield.field
Assign(attr, field) == [attr |-> attr, field |-> field]

\* class LandPlatformAppearance: __init__, serialize, parse
LandPlatformAppearance_class ==
    [name |-> "LandPlatformAppearance",
     fields |-> LandPlatformAppearance_struct,
     init |->
         <<Attribute("paintScheme", "paintScheme", 0),
           Attribute("mobilityKilled", "mobilityKilled", 0),
           Attribute("firepowerKilled", "firepowerKilled", 0),
           Attribute("damage", "damage", 0),
           Attribute("isSmokeEmanating", "isSmokeEmanating", 0),
           Attribute("isEngineEmittingSmoke", "isEngineEmittingSmoke", 0),
           Attribute("trailingDustCloud", "trailingDustCloud", 0),
           Attribute("primaryHatch", "primaryHatch", 0),
           Attribute("headLightsOn", "headLightsOn", 0),
           Attribute("tailLightsOn", "tailLightsOn", 0),
           Attribute("brakeLightsOn", "brakeLightsOn", 0),
           Attribute("isFlaming", "isFlaming", 0),
           Attribute("operational", "operational", 1),
           Attribute("camouflageType", "camouflageType", 0),
           Attribute("concealedPosition", "concealedPosition", 0),
           Attribute("unused", "", 0),
           Attribute("isFrozen", "isFrozen", 0),
           Attribute("powerPlantOn", "powerPlantOn", 1),
           Attribute("state", "state", 0),
           Attribute("tentExtended", "tentExtended", 0),
           Attribute("rampExtended", "rampExtended", 0),
           Attribute("blackoutLightsOn", "blackoutLightsOn", 0),
           Attribute("blackoutBrakeLightsOn", "blackoutBrakeLightsOn", 0),
           Attribute("spotLightOn", "spotLightOn", 0),
           Attribute("interiorLightsOn", "interiorLightsOn", 0),
           Attribute("occupantsSurrendered", "occupantsSurrendered", 0),
           Attribute("cloaked", "cloaked", 0)>>,
     arguments |->
         LandPlatformAppearance_arguments,
     assigns |->
         <<Assign("paintScheme", "paintScheme"),
           Assign("mobilityKilled", "mobilityKilled"),
           Assign("firepowerKilled", "firepowerKilled"),
           Assign("damage", "damage"),
           Assign("isSmokeEmanating", "isSmokeEmanating"),
           Assign("isEngineEmittingSmoke", "isEngineEmittingSmoke"),
           Assign("trailingDustCloud", "trailingDustCloud"),
           Assign("primaryHatch", "primaryHatch"),
           Assign("headLightsOn", "headLightsOn"),
           Assign("tailLightsOn", "tailLightsOn"),
           Assign("brakeLightsOn", "brakeLightsOn"),
           Assign("isFlaming", "isFlaming"),
           Assign("operational", "operational"),
           Assign("camouflageType", "camouflageType"),
           Assign("concealedPosition", "concealedPosition"),
           Assign("unused", "unused"),
           Assign("isFrozen", "isFrozen"),
           Assign("powerPlantOn", "powerPlantOn"),
           Assign("state", "state"),
           Assign("tentExtended", "tentExtended"),
           Assign("rampExtended", "rampExtended"),
           Assign("blackoutLightsOn", "blackoutLightsOn"),
           Assign("blackoutBrakeLightsOn", "blackoutBrakeLightsOn"),
           Assign("spotLightOn", "spotLightOn"),
           Assign("interiorLightsOn", "interiorLightsOn"),
           Assign("occupantsSurrendered", "occupantsSurrendered"),
           Assign("cloaked", "cloaked")>>]

\* class AirPlatformAppearance: __init__, serialize, parse
AirPlatformAppearance_class ==
    [name |-> "AirPlatformAppearance",
     fields |-> AirPlatformAppearance_struct,
     init |->
         <<Attribute("paintScheme", "paintScheme", 0),
           Attribute("propulsionKilled", "propulsionKilled", 0),
           Attribute("nvgMode", "nvgMode", 0),
           Attribute("damage", "damage", 0),
           Attribute("isSmokeEmanating", "isSmokeEmanating", 0),
           Attribute("isEngineEmittingSmoke", "isEngineEmittingSmoke", 0),
           Attribute("trailingEffects", "trailingEffects", 0),
           Attribute("canopyDoor", "canopyDoor", 0),
           Attribute("landingLightsOn", "landingLightsOn", 0),
           Attribute("navigationLightsOn", "navigationLightsOn", 0),
           Attribute("antiCollisionLightsOn", "antiCollisionLightsOn", 0),
           Attribute("isFlaming", "isFlaming", 0),
           Attribute("afterburnerOn", "afterburnerOn", 1),
           Attribute("lowerAntiCollisionLightOn", "lowerAntiCollisionLightOn", 0),
           Attribute("upperAntiCollisionLightOn", "upperAntiCollisionLightOn", 0),
           Attribute("antiCollisionLightDayOrNight", "antiCollisionLightDayOrNight", 0),
           Attribute("isFrozen", "isFrozen", 0),
           Attribute("isBlinking", "isBlinking", 0),
           Attribute("powerPlantOn", "powerPlantOn", 1),
           Attribute("state", "state", 0),
           Attribute("formationLightsOn", "formationLightsOn", 0),
           Attribute("landingGearExtended", "landingGearExtended", 0),
           Attribute("cargoDoorsOpened", "cargoDoorsOpened", 0),
           Attribute("navigationLightBrightness", "navigationLightBrightness", 0),
           Attribute("spotLightOn", "spotLightOn", 0),
           Attribute("interiorLightsOn", "interiorLightsOn", 0),
           Attribute("reverseThrustEngaged", "reverseThrustEngaged", 0),
           Attribute("weightOnWheels", "weightOnWheels", 0)>>,
     arguments |->
         <<"paintScheme",
           "propulsionKilled",
           "nvgMode",
           "damage",
           "isSmokeEmanating",
           "isEngineEmittingSmoke",
           "trailingEffects",
           "canopyDoor",
           "landingLightsOn",
           "navigationLightsOn",
           "antiCollisionLightsOn",
           "isFlaming",
           "afterburnerOn",
           "lowerAntiCollisionLightOn",
           "upperAntiCollisionLightOn",
           "antiCollisionLightDayOrNight",
           "isFrozen",
           "isBlinking",
           "powerPlantOn",
           "state",
           "formationLightsOn",
           "landingGearExtended",
           "cargoDoorsOpened",
           "navigationLightBrightness",
           "spotLightOn",
           "interiorLightsOn",
           "reverseThrustEngaged",
           "weightOnWheels">>,
     assigns |->
         <<Assign("paintScheme", "paintScheme"),
           Assign("propulsionKilled", "propulsionKilled"),
           Assign("nvgMode", "nvgMode"),
           Assign("damage", "damage"),
           Assign("isSmokeEmanating", "isSmokeEmanating"),
           Assign("isEngineEmittingSmoke", "isEngineEmittingSmoke"),
           Assign("trailingEffects", "trailingEffects"),
           Assign("canopyDoor", "canopyDoor"),
           Assign("landingLightsOn", "landingLightsOn"),
           Assign("navigationLightsOn", "navigationLightsOn"),
           Assign("antiCollisionLightsOn", "antiCollisionLightsOn"),
           Assign("isFlaming", "isFlaming"),
           Assign("afterburnerOn", "afterburnerOn"),
           Assign("lowerAntiCollisionLightOn", "lowerAntiCollisionLightOn"),
           Assign("upperAntiCollisionLightOn", "upperAntiCollisionLightOn"),
           Assign("antiCollisionLightDayOrNight", "antiCollisionLightDayOrNight"),
           Assign("isFrozen", "isFrozen"),
           Assign("isBlinking", "isBlinking"),
           Assign("powerPlantOn", "powerPlantOn"),
           Assign("state", "state"),
           Assign("formationLightsOn", "formationLightsOn"),
           Assign("landingGearExtended", "landingGearExtended"),
           Assign("cargoDoorsOpened", "cargoDoorsOpened"),
           Assign("navigationLightBrightness", "navigationLightBrightness"),
           Assign("spotLightOn", "spotLightOn"),
           Assign("interiorLightsOn", "interiorLightsOn"),
           Assign("reverseThrustEngaged", "reverseThrustEngaged"),
           Assign("weightOnWheels", "weightOnWheels")>>]

\* class SurfacePlatformAppearance: __init__, serialize, parse
SurfacePlatformAppearance_class ==
    [name |-> "SurfacePlatformAppearance",
     fields |-> SurfacePlatformAppearance_struct,
     init |->
         <<Attribute("paintScheme", "paintScheme", 0),
           Attribute("mobilityKilled", "mobilityKilled", 0),
           Attribute("unused1", "", 0),
           Attribute("damage", "damage", 0),
           Attribute("isSmokeEmanating", "isSmokeEmanating", 0),
           Attribute("isEngineEmittingSmoke", "isEngineEmittingSmoke", 0),
           Attribute("wakeSize", "wakeSize", 0),
           Attribute("unused2", "", 0),
           Attribute("runningLightsOn", "runningLightsOn", 0),
           Attribute("unused3", "", 0),
           Attribute("isFlaming", "isFlaming", 0),
           Attribute("isAccomodationLadderLowered", "isAccomodationLadderLowered", 1),
           Attribute("isFenceRaised", "isFenceRaised", 0),
           Attribute("isFlagRaised", "isFlagRaised", 0),
           Attribute("unused4", "", 0),
           Attribute("isFrozen", "isFrozen", 0),
           Attribute("powerPlantOn", "powerPlantOn", 1),
           Attribute("state", "state", 0),
           Attribute("unused5", "", 0),
           Attribute("towedArraySonar", "towedArraySonar", 0),
           Attribute("spotLightOn", "spotLightOn", 0),
           Attribute("interiorLightsOn", "interiorLightsOn", 0),
           Attribute("unused6", "", 0)>>,
     arguments |->
         <<"paintScheme",
           "mobilityKilled",
           "unused1",
           "damage",
           "isSmokeEmanating",
           "isEngineEmittingSmoke",
           "wakeSize",
           "unused2",
           "runningLightsOn",
           "unused3",
           "isFlaming",
           "isAccomodationLadderLowered",
           "isFenceRaised",
           "isFlagRaised",
           "unused4",
           "isFrozen",
           "powerPlantOn",
           "state",
           "unused5",
           "towedArraySonar",
           "spotLightOn",
           "interiorLightsOn",
           "unused6">>,
     assigns |->
         <<Assign("paintScheme", "paintScheme"),
           Assign("mobilityKilled", "mobilityKilled"),
           Assign("unused1", "unused1"),
           Assign("damage", "damage"),
           Assign("isSmokeEmanating", "isSmokeEmanating"),
           Assign("isEngineEmittingSmoke", "isEngineEmittingSmoke"),
           Assign("wakeSize", "wakeSize"),
           Assign("unused2", "unused2"),
           Assign("runningLightsOn", "runningLightsOn"),
           Assign("unused3", "unused3"),
           Assign("isFlaming", "isFlaming"),
           Assign("isAccomodationLadderLowered", "isAccomodationLadderLowered"),
           Assign("isFenceRaised", "isFenceRaised"),
           Assign("isFlagRaised", "isFlagRaised"),
           Assign("unused4", "unused4"),
           Assign("isFrozen", "isFrozen"),
           Assign("powerPlantOn", "powerPlantOn"),
           Assign("state", "state"),
           Assign("unused5", "unused5"),
           Assign("towedArraySonar", "towedArraySonar"),
           Assign("spotLightOn", "spotLightOn"),
           Assign("interiorLightsOn", "interiorLightsOn"),
           Assign("unused6", "unused6")>>]

\* class SubsurfacePlatformAppearance: __init__, serialize, parse
SubsurfacePlatformAppearance_class ==
    [name |-> "SubsurfacePlatformAppearance",
     fields |-> SubsurfacePlatformAppearance_struct,
     init |->
         <<Attribute("paintScheme", "paintScheme", 0),
           Attribute("mobilityKilled", "mobilityKilled", 0),
           Attribute("unused1", "", 0),
           Attribute("damage", "damage", 0),
           Attribute("isSmokeEmanating", "isSmokeEmanating", 0),
           Attribute("isEngineEmittingSmoke", "isEngineEmittingSmoke", 0),
           Attribute("unused2", "", 0),
           Attribute("hatchState", "hatchState", 0),
           Attribute("runningLightsOn", "runningLightsOn", 0),
           Attribute("unused3", "", 0),
           Attribute("isFlaming", "isFlaming", 0),
           Attribute("periscope", "periscope", 0),
           Attribute("snorkel", "snorkel", 0),
           Attribute("radarMast", "radarMast", 0),
           Attribute("commsMast", "commsMast", 0),
           Attribute("esmMast", "esmMast", 0),
           Attribute("isFrozen", "isFrozen", 0),
           Attribute("powerPlantOn", "powerPlantOn", 1),
           Attribute("state", "state", 0),
           Attribute("unused4", "", 0),
           Attribute("torpedoTubesOpen", "torpedoTubesOpen", 0),
           Attribute("missileHatchesOpen", "missileHatchesOpen", 0),
           Attribute("towedArraySonar", "towedArraySonar", 0),
           Attribute("unused5", "", 0)>>,
     arguments |->
         <<"paintScheme",
           "mobilityKilled",
           "unused1",
           "damage",
           "isSmokeEmanating",
           "isEngineEmittingSmoke",
           "unused2",
           "hatchState",
           "runningLightsOn",
           "unused3",
           "isFlaming",
           "periscope",
           "snorkel",
           "radarMast",
           "commsMast",
           "esmMast",
           "isFrozen",
           "powerPlantOn",
           "state",
           "unused4",
           "torpedoTubesOpen",
           "missileHatchesOpen",
           "towedArraySonar",
           "unused5">>,
     assigns |->
         <<Assign("paintScheme", "paintScheme"),
           Assign("mobilityKilled", "mobilityKilled"),
           Assign("unused1", "unused1"),
           Assign("damage", "damage"),
           Assign("isSmokeEmanating", "isSmokeEmanating"),
           Assign("isEngineEmittingSmoke", "isEngineEmittingSmoke"),
           Assign("unused2", "unused2"),
           Assign("hatchState", "hatchState"),
           Assign("runningLightsOn", "runningLightsOn"),
           Assign("unused3", "unused3"),
           Assign("isFlaming", "isFlaming"),
           Assign("periscope", "periscope"),
           Assign("snorkel", "snorkel"),
           Assign("radarMast", "radarMast"),
           Assign("commsMast", "commsMast"),
           Assign("esmMast", "esmMast"),
           Assign("isFrozen", "isFrozen"),
           Assign("powerPlantOn", "powerPlantOn"),
           Assign("state", "state"),
           Assign("unused4", "unused4"),
           Assign("torpedoTubesOpen", "torpedoTubesOpen"),
           Assign("missileHatchesOpen", "missileHatchesOpen"),
           Assign("towedArraySonar", "towedArraySonar"),
           Assign("unused5", "unused5")>>]

\* class SpacePlatformAppearance: __init__, serialize, parse
SpacePlatformAppearance_class ==
    [name |-> "SpacePlatformAppearance",
     fields |-> SpacePlatformAppearance_struct,
     init |->
         <<Attribute("paintScheme", "paintScheme", 0),
           Attribute("mobilityKilled", "mobilityKilled", 0),
           Attribute("unused1", "", 0),
           Attribute("damage", "damage", 0),
           Attribute("isSmokeEmanating", "isSmokeEmanating", 0),
           Attribute("isEngineEmittingSmoke", "isEngineEmittingSmoke", 0),
           Attribute("unused2", "", 0),
           Attribute("isFlaming", "isFlaming", 0),
           Attribute("unused3", "", 0),
           Attribute("isFrozen", "isFrozen", 0),
           Attribute("powerPlantOn", "powerPlantOn", 1),
           Attribute("state", "state", 0),
           Attribute("unused4", "", 0)>>,
     arguments |->
         <<"paintScheme",
           "mobilityKilled",
           "unused1",
           "damage",
           "isSmokeEmanating",
           "isEngineEmittingSmoke",
           "unused2",
           "isFlaming",
           "unused3",
           "isFrozen",
           "powerPlantOn",
           "state",
           "unused4">>,
     assigns |->
         <<Assign("paintScheme", "paintScheme"),
           Assign("mobilityKilled", "mobilityKilled"),
           Assign("unused1", "unused1"),
           Assign("damage", "damage"),
           Assign("isSmokeEmanating", "isSmokeEmanating"),
           Assign("isEngineEmittingSmoke", "isEngineEmittingSmoke"),
           Assign("unused2", "unused2"),
           Assign("isFlaming", "isFlaming"),
           Assign("unused3", "unused3"),
           Assign("isFrozen", "isFrozen"),
           Assign("powerPlantOn", "powerPlantOn"),
           Assign("state", "state"),
           Assign("unused4", "unused4")>>]

\* class MunitionAppearance: __init__, serialize, parse
MunitionAppearance_class ==
    [name |-> "MunitionAppearance",
     fields |-> MunitionAppearance_struct,
     init |->
         <<Attribute("damage", "damage", 0),
           Attribute("isSmokeEmanating", "isSmokeEmanating", 0),
           Attribute("isEngineEmittingSmoke", "isEngineEmittingSmoke", 0),
           Attribute("vaporTrailSize", "vaporTrailSize", 0),
           Attribute("unused1", "", 0),
           Attribute("isFlaming", "isFlaming", 0),
           Attribute("launchFlashPresent", "launchFlashPresent", 0),
           Attribute("unused2", "", 0),
           Attribute("isFrozen", "isFrozen", 0),
           Attribute("powerPlantOn", "powerPlantOn", 1),
           Attribute("state", "state", 0),
           Attribute("coverShroudStatus", "coverShroudStatus", 0),
           Attribute("unused3", "", 0)>>,
     arguments |->
         <<"unused",
           "damage",
           "isSmokeEmanating",
           "isEngineEmittingSmoke",
           "vaporTrailSize",
           "unused1",
           "isFlaming",
           "launchFlashPresent",
           "unused2",
           "isFrozen",
           "powerPlantOn",
           "state",
           "coverShroudStatus",
           "unused3">>,
     assigns |->
         <<Assign("unused", "unused"),
           Assign("damage", "damage"),
           Assign("isSmokeEmanating", "isSmokeEmanating"),
           Assign("isEngineEmittingSmoke", "isEngineEmittingSmoke"),
           Assign("vaporTrailSize", "vaporTrailSize"),
           Assign("unused1", "unused1"),
           Assign("isFlaming", "isFlaming"),
           Assign("launchFlashPresent", "launchFlashPresent"),
           Assign("unused2", "unused2"),
           Assign("isFrozen", "isFrozen"),
           Assign("powerPlantOn", "powerPlantOn"),
           Assign("state", "state"),
           Assign("coverShroudStatus", "coverShroudStatus"),
           Assign("unused3", "unused3")>>]

\* class HumanLifeFormAppearance: __init__, serialize, parse
HumanLifeFormAppearance_class ==
    [name |-> "HumanLifeFormAppearance",
     fields |-> HumanLifeFormAppearance_struct,
     init |->
         <<Attribute("paintScheme", "paintScheme", 0),
           Attribute("unused1", "", 0),
           Attribute("health", "health", 0),
           Attribute("complianceStatus", "complianceStatus", 0),
           Attribute("clothingIRSignature", "clothingIRSignature", 0),
           Attribute("signalSmokeInUse", "signalSmokeInUse", 0),
           Attribute("flashLightsOn", "flashLightsOn", 0),
           Attribute("signalMirrorInUse", "signalMirrorInUse", 0),
           Attribute("irStrobeOn", "irStrobeOn", 0),
           Attribute("irIlluminatorOn", "irIlluminatorOn", 0),
           Attribute("lifeFormPosture", "lifeFormPosture", 0),
           Attribute("isSmokingCigarette", "isSmokingCigarette", 0),
           Attribute("isFrozen", "isFrozen", 0),
           Attribute("mountedStatus", "mountedStatus", 0),
           Attribute("state", "state", 0),
           Attribute("primaryWeaponPosition", "primaryWeaponPosition", 0),
           Attribute("secondaryWeaponPosition", "secondaryWeaponPosition", 0),
           Attribute("camouflageType", "camouflageType", 0),
           Attribute("concealedStationary", "concealedStationary", 0),
           Attribute("concealedMoving", "concealedMoving", 0)>>,
     arguments |->
         <<"paintScheme",
           "unused1",
           "health",
           "complianceStatus",
           "clothingIRSignature",
           "signalSmokeInUse",
           "flashLightsOn",
           "signalMirrorInUse",
           "irStrobeOn",
           "irIlluminatorOn",
           "lifeFormPosture",
           "isSmokingCigarette",
           "isFrozen",
           "mountedStatus",
           "state",
           "primaryWeaponPosition",
           "secondaryWeaponPosition",
           "camouflageType",
           "concealedStationary",
           "concealedMoving">>,
     assigns |->
         <<Assign("paintScheme", "paintScheme"),
           Assign("unused1", "unused1"),
           Assign("health", "health"),
           Assign("complianceStatus", "complianceStatus"),
           Assign("clothingIRSignature", "clothingIRSignature"),
           Assign("signalSmokeInUse", "signalSmokeInUse"),
           Assign("flashLightsOn", "flashLightsOn"),
           Assign("signalMirrorInUse", "signalMirrorInUse"),
           Assign("irStrobeOn", "irStrobeOn"),
           Assign("irIlluminatorOn", "irIlluminatorOn"),
           Assign("lifeFormPosture", "lifeFormPosture"),
           Assign("isSmokingCigarette", "isSmokingCigarette"),
           Assign("isFrozen", "isFrozen"),
           Assign("mountedStatus", "mountedStatus"),
           Assign("state", "state"),
           Assign("primaryWeaponPosition", "primaryWeaponPosition"),
           Assign("secondaryWeaponPosition", "secondaryWeaponPosition"),
           Assign("camouflageType", "camouflageType"),
           Assign("concealedStationary", "concealedStationary"),
           Assign("concealedMoving", "concealedMoving")>>]

\* class EnvironmentalAppearance: __init__, serialize, parse
EnvironmentalAppearance_class ==
    [name |-> "EnvironmentalAppearance",
     fields |-> EnvironmentalAppearance_struct,
     init |->
         <<Attribute("unused1", "", 0),
           Attribute("density", "density", 0),
           Attribute("isFrozen", "isFrozen", 0),
           Attribute("unused2", "", 0),
           Attribute("state", "state", 0),
           Attribute("unused3", "", 0),
           Attribute("masked", "masked", 0)>>,
     arguments |->
         <<"unused1",
           "density",
           "isFrozen",
           "unused2",
           "state",
           "unused3",
           "masked">>,
     assigns |->
         <<Assign("unused1", "unused1"),
           Assign("density", "density"),
           Assign("isFrozen", "isFrozen"),
           Assign("unused2", "unused2"),
           Assign("state", "state"),
           Assign("unused3", "unused3"),
           Assign("masked", "masked")>>]

\* class CulturalFeatureAppearance: __init__, serialize, parse
CulturalFeatureAppearance_class ==
    [name |-> "CulturalFeatureAppearance",
     fields |-> CulturalFeatureAppearance_struct,
     init |->
         <<Attribute("damageArea", "damageArea", 0),
           Attribute("damage", "damage", 0),
           Attribute("isSmokeEmanating", "isSmokeEmanating", 0),
           Attribute("unused1", "", 0),
           Attribute("isFlaming", "isFlaming", 0),
           Attribute("unused2", "", 0),
           Attribute("isFrozen", "isFrozen", 0),
           Attribute("internalHeatOn", "internalHeatOn", 0),
           Attribute("state", "state", 0),
           Attribute("unused3", "", 0),
           Attribute("exteriorLightsOn", "exteriorLightsOn", 0),
           Attribute("interiorLightsOn", "interiorLightsOn", 0),
           Attribute("unused4", "", 0),
           Attribute("masked", "masked", 0)>>,
     arguments |->
         <<"damageArea",
           "damage",
           "isSmokeEmanating",
           "unused1",
           "isFlaming",
           "unused2",
           "isFrozen",
           "internalHeatOn",
           "state",
           "unused3",
           "exteriorLightsOn",
           "interiorLightsOn",
           "unused4",
           "masked">>,
     assigns |->
         <<Assign("damageArea", "damageArea"),
           Assign("damage", "damage"),
           Assign("isSmokeEmanating", "isSmokeEmanating"),
           Assign("unused1", "unused1"),
           Assign("isFlaming", "isFlaming"),
           Assign("unused2", "unused2"),
           Assign("isFrozen", "isFrozen"),
           Assign("internalHeatOn", "internalHeatOn"),
           Assign("state", "state"),
           Assign("unused3", "unused3"),
           Assign("exteriorLightsOn", "exteriorLightsOn"),
           Assign("interiorLightsOn", "interiorLightsOn"),
           Assign("unused4", "unused4"),
           Assign("masked", "masked")>>]

\* class SupplyAppearance: __init__, serialize, parse
SupplyAppearance_class ==
    [name |-> "SupplyAppearance",
     fields |-> SupplyAppearance_struct,
     init |->
         <<Attribute("paintScheme", "paintScheme", 0),
           Attribute("unused1", "", 0),
           Attribute("damage", "damage", 0),
           Attribute("unused2", "", 0),
           Attribute("parachuteStatus", "parachuteStatus", 0),
           Attribute("unused3", "", 0),
           Attribute("isFlaming", "isFlaming", 0),
           Attribute("unused4", "", 0),
           Attribute("isFrozen", "isFrozen", 0),
           Attribute("unused5", "", 0),
           Attribute("state", "state", 0),
           Attribute("deployedStatus", "deployedStatus", 0),
           Attribute("unused6", "", 0),
           Attribute("masked", "masked", 0)>>,
     arguments |->
         <<"paintScheme",
           "unused1",
           "damage",
           "unused2",
           "parachuteStatus",
           "unused3",
           "isFlaming",
           "unused4",
           "isFrozen",
           "unused5",
           "state",
           "deployedStatus",
           "unused6",
           "masked">>,
     assigns |->
         <<Assign("paintScheme", "paintScheme"),
           Assign("unused1", "unused1"),
           Assign("damage", "damage"),
           Assign("unused2", "unused2"),
           Assign("parachuteStatus", "parachuteStatus"),
           Assign("unused3", "unused3"),
           Assign("isFlaming", "isFlaming"),
           Assign("unused4", "unused4"),
           Assign("isFrozen", "isFrozen"),
           Assign("unused5", "unused5"),
           Assign("state", "state"),
           Assign("deployedStatus", "deployedStatus"),
           Assign("unused6", "unused6"),
           Assign("masked", "masked")>>]

\* class RadioAppearance: __init__, serialize, parse
RadioAppearance_class ==
    [name |-> "RadioAppearance",
     fields |-> RadioAppearance_struct,
     init |->
         <<Attribute("unused1", "", 0),
           Attribute("isFrozen", "isFrozen", 0),
           Attribute("unused2", "", 0),
           Attribute("state", "state", 0),
           Attribute("unused3", "", 0)>>,
     arguments |->
         <<"unused1",
           "isFrozen",
           "unused2",
           "state",
           "unused3">>,
     assigns |->
         <<Assign("unused1", "unused1"),
           Assign("isFrozen", "isFrozen"),
           Assign("unused2", "unused2"),
           Assign("state", "state"),
           Assign("unused3", "unused3")>>]

\* class ExpendableAppearance: __init__, serialize, parse
ExpendableAppearance_class ==
    [name |-> "ExpendableAppearance",
     fields |-> ExpendableAppearance_struct,
     init |->
         <<Attribute("unused1", "", 0),
           Attribute("damage", "damage", 0),
           Attribute("isSmokeEmanating", "isSmokeEmanating", 0),
           Attribute("parachuteStatus", "parachuteStatus", 0),
           Attribute("flareOrSmokeColor", "flareOrSmokeColor", 0),
           Attribute("isFlaming", "isFlaming", 0),
           Attribute("launchFlashPresent", "launchFlashPresent", 0),
           Attribute("flareOrSmokeStatus", "flareOrSmokeStatus", 0),
           Attribute("isFrozen", "isFrozen", 0),
           Attribute("powerPlantOn", "powerPlantOn", 1),
           Attribute("state", "state", 0),
           Attribute("spotChaffStatus", "spotChaffStatus", 0),
           Attribute("unused2", "", 0),
           Attribute("masked", "masked", 0)>>,
     arguments |->
         <<"unused1",
           "damage",
           "isSmokeEmanating",
           "parachuteStatus",
           "flareOrSmokeColor",
           "isFlaming",
           "launchFlashPresent",
           "flareOrSmokeStatus",
           "isFrozen",
           "powerPlantOn",
           "state",
           "spotChaffStatus",
           "unused2",
           "masked">>,
     assigns |->
         <<Assign("unused1", "unused1"),
           Assign("damage", "damage"),
           Assign("isSmokeEmanating", "isSmokeEmanating"),
           Assign("parachuteStatus", "parachuteStatus"),
           Assign("flareOrSmokeColor", "flareOrSmokeColor"),
           Assign("isFlaming", "isFlaming"),
           Assign("launchFlashPresent", "launchFlashPresent"),
           Assign("flareOrSmokeStatus", "flareOrSmokeStatus"),
           Assign("isFrozen", "isFrozen"),
           Assign("powerPlantOn", "powerPlantOn"),
           Assign("state", "state"),
           Assign("spotChaffStatus", "spotChaffStatus"),
           Assign("unused2", "unused2"),
           Assign("masked", "masked")>>]

\* class SensorEmitterAppearance: __init__, serialize, parse
SensorEmitterAppearance_class ==
    [name |-> "SensorEmitterAppearance",
     fields |-> SensorEmitterAppearance_struct,
     init |->
         <<Attribute("paintScheme", "paintScheme", 0),
           Attribute("mobilityKilled", "mobilityKilled", 0),
           Attribute("missionKilled", "missionKilled", 0),
           Attribute("damage", "damage", 0),
           Attribute("isSmokeEmanating", "isSmokeEmanating", 0),
           Attribute("isEngineEmittingSmoke", "isEngineEmittingSmoke", 0),
           Attribute("trailingEffects", "trailingEffects", 0),
           Attribute("unused1", "", 0),
           Attribute("lightsOn", "lightsOn", 0),
           Attribute("unused2", "", 0),
           Attribute("isFlaming", "isFlaming", 0),
           Attribute("antennaRaised", "antennaRaised", 0),
           Attribute("camouflageType", "camouflageType", 0),
           Attribute("concealedPosition", "concealedPosition", 0),
           Attribute("unused3", "", 0),
           Attribute("isFrozen", "isFrozen", 0),
           Attribute("powerPlantOn", "powerPlantOn", 1),
           Attribute("state", "state", 0),
           Attribute("tentExtended", "tentExtended", 0),
           Attribute("unused4", "", 0),
           Attribute("blackoutLightsOn", "blackoutLightsOn", 0),
           Attribute("unused5", "", 0),
           Attribute("interiorLightsOn", "interiorLightsOn", 0),
           Attribute("unused6", "", 0)>>,
     arguments |->
         <<"paintScheme",
           "mobilityKilled",
           "missionKilled",
           "damage",
           "isSmokeEmanating",
           "isEngineEmittingSmoke",
           "trailingEffects",
           "unused1",
           "lightsOn",
           "unused2",
           "isFlaming",
           "antennaRaised",
           "camouflageType",
           "concealedPosition",
           "unused3",
           "isFrozen",
           "powerPlantOn",
           "state",
           "tentExtended",
           "unused4",
           "blackoutLightsOn",
           "unused5",
           "interiorLightsOn",
           "unused6">>,
     assigns |->
         <<Assign("paintScheme", "paintScheme"),
           Assign("mobilityKilled", "mobilityKilled"),
           Assign("missionKilled", "missionKilled"),
           Assign("damage", "damage"),
           Assign("isSmokeEmanating", "isSmokeEmanating"),
           Assign("isEngineEmittingSmoke", "isEngineEmittingSmoke"),
           Assign("trailingEffects", "trailingEffects"),
           Assign("unused1", "unused1"),
           Assign("lightsOn", "lightsOn"),
           Assign("unused2", "unused2"),
           Assign("isFlaming", "isFlaming"),
           Assign("antennaRaised", "antennaRaised"),
           Assign("camouflageType", "camouflageType"),
           Assign("concealedPosition", "concealedPosition"),
           Assign("unused3", "unused3"),
           Assign("isFrozen", "isFrozen"),
           Assign("powerPlantOn", "powerPlantOn"),
           Assign("state", "state"),
           Assign("tentExtended", "tentExtended"),
           Assign("unused4", "unused4"),
           Assign("blackoutLightsOn", "blackoutLightsOn"),
           Assign("unused5", "unused5"),
           Assign("interiorLightsOn", "interiorLightsOn"),
           Assign("unused6", "unused6")>>]

\* The appearance classes with a bit layout, in source order.
AppearanceClasses ==
    <<LandPlatformAppearance_class, AirPlatformAppearance_class,
      SurfacePlatformAppearance_class, SubsurfacePlatformAppearance_class,
      SpacePlatformAppearance_class, MunitionAppearance_class,
      HumanLifeFormAppearance_class, EnvironmentalAppearance_class,
      CulturalFeatureAppearance_class, SupplyAppearance_class,
      RadioAppearance_class, ExpendableAppearance_class,
      SensorEmitterAppearance_class>>

\* The class object of a given name.
AppearanceClass(name) ==
    AppearanceClasses[CHOOSE i \in DOMAIN AppearanceClasses :
                          AppearanceClasses[i].name = name]

\* Keyword arguments: none given.
NoArguments == [n \in {} |-> 0]

\* cls(**kwargs): the attributes __init__ sets, each from its parameter
\* (the default when the parameter is not given) or from a constant.
AppearanceClass_init(cls, kwargs) ==
    [cls |-> cls.name,
     attrs |-> [n \in {cls.init[i].name : i \in DOMAIN cls.init} |->
                   LET a == cls.init[CHOOSE i \in DOMAIN cls.init :
                                         cls.init[i].name = n]
                   IN  IF a.param \in DOMAIN kwargs THEN kwargs[a.param]
                       ELSE a.default]]

\* self._struct(self.a, self.b, ...).serialize(outputStream): the
\* attributes are read in the order of the call, a missing one raising
\* AttributeError before anything is written.  A class whose layout the
\* packer refused does not exist.
AppearanceClass_serialize(cls, self) ==
    IF bitfield(cls.name, cls.fields).fault # "none"
    THEN Written(<<>>, bitfield(cls.name, cls.fields).fault)
    ELSE IF \E i \in DOMAIN cls.arguments :
                ~hasattr(self.attrs, cls.arguments[i])
    THEN Written(<<>>, "AttributeError")
    ELSE Written(<<Bitfield_serialize(cls.fields,
                       [i \in DOMAIN cls.arguments |->
                            self.attrs[cls.arguments[i]]])>>, "none")

\* The assignments of parse, in order: record_bitfield has an attribute
\* for each field of the layout and no other.
RECURSIVE AssignFields(_, _, _, _)
AssignFields(self, fields, values, assigns) ==
    IF assigns = <<>> THEN [rec |-> self, fault |-> "none"]
    ELSE IF \A i \in DOMAIN fields : fields[i].name # Head(assigns).field
    THEN [rec |-> self, fault |-> "AttributeError"]
    ELSE AssignFields(
             [self EXCEPT !.attrs =
                  setattr(@, Head(assigns).attr,
                          values[CHOOSE i \in DOMAIN fields :
                                     fields[i].name = Head(assigns).field])],
             fields, values, Tail(assigns))

\* record_bitfield = self._struct.parse(inputStream), then the assignments.
AppearanceClass_parse(cls, self, s, p) ==
    IF bitfield(cls.name, cls.fields).fault # "none"
    THEN Parsed(self, p, bitfield(cls.name, cls.fields).fault)
    ELSE IF Remaining(s, p) < Bitfield_marshalledSize(cls.fields)
    THEN Parsed(self, p, "underrun")
    ELSE LET r == AssignFields(self, cls.fields,
                               Bitfield_parse(cls.fields, s, p), cls.assigns)
         IN  Parsed(r.rec, p + Bitfield_marshalledSize(cls.fields), r.fault)

\* UnknownAppearance.parse: _ = inputStream.read_bytes(self.marshalledSize())
UnknownAppearance_parse(self, s, p) ==
    IF Remaining(s, p) < AppearanceRecord_marshalledSize(self)
    THEN Parsed(self, p, "underrun")
    ELSE Parsed(self, p + AppearanceRecord_marshalledSize(self), "none")

\* apClass() with the default arguments of its constructor.
Appearance_new(name) ==
    IF name = "UnknownAppearance" THEN UnknownAppearance(ZeroBytes(4))
    ELSE AppearanceClass_init(AppearanceClass(name), NoArguments)

\* record.serialize(outputStream), dispatched on the class of record.
AppearanceRecord_serialize(self) ==
    IF self.cls = "UnknownAppearance"
    THEN Written(UnknownAppearance_serialize(self), "none")
    ELSE AppearanceClass_serialize(AppearanceClass(self.cls), self)

\* record.parse(inputStream), dispatched on the class of record.
AppearanceRecord_parse(self, s, p) ==
    IF self.cls = "UnknownAppearance" THEN UnknownAppearance_parse(self, s, p)
    ELSE AppearanceClass_parse(AppearanceClass(self.cls), self, s, p)

----------------------------------------------------------------------------
(* Operations on bit fields and fixed-layout records                       *)

\* Every bitfield(...) call the source makes when its classes are defined.
DeclaredBitfields ==
    {[owner |-> "LandPlatformAppearance",
      fields |-> LandPlatformAppearance_struct],
     [owner |-> "AirPlatformAppearance",
      fields |-> AirPlatformAppearance_struct],
     [owner |-> "SurfacePlatformAppearance",
      fields |-> SurfacePlatformAppearance_struct],
     [owner |-> "SubsurfacePlatformAppearance",
      fields |-> SubsurfacePlatformAppearance_struct],
     [owner |-> "SpacePlatformAppearance",
      fields |-> SpacePlatformAppearance_struct],
     [owner |-> "MunitionAppearance",
      fields |-> MunitionAppearance_struct],
     [owner |-> "HumanLifeFormAppearance",
      fields |-> HumanLifeFormAppearance_struct],
     [owner |-> "EnvironmentalAppearance",
      fields |-> EnvironmentalAppearance_struct],
     [owner |-> "CulturalFeatureAppearance",
      fields |-> CulturalFeatureAppearance_struct],
     [owner |-> "SupplyAppearance",
      fields |-> SupplyAppearance_struct],
     [owner |-> "RadioAppearance",
      fields |-> RadioAppearance_struct],
     [owner |-> "ExpendableAppearance",
      fields |-> ExpendableAppearance_struct],
     [owner |-> "SensorEmitterAppearance",
      fields |-> SensorEmitterAppearance_struct],
     [owner |-> "NetId", fields |-> NetId_struct],
     [owner |-> "SpreadSpectrum", fields |-> SpreadSpectrum_struct]}

\* _struct = bitfield(name, fields) in the body of a class.
DeclareBitfield(d) ==
    /\ op' = "bitfield"
    /\ arg' = Some(d.owner)
    /\ ret' = BitSize(d.fields)
    /\ fault' = bitfield(d.owner, d.fields).fault
    /\ inp' = <<>>
    /\ pos' = 0
    /\ out' = <<>>
    /\ UNCHANGED <<items, shared>>

\* The largest value of every field of the Land Platform layout.
LandMax == <<1, 1, 1, 3, 1, 1, 3, 7, 1, 1, 1, 1, 1, 3, 1, 1, 1, 1, 1, 1, 1, 1, 1, 1, 1, 1, 1>>

LandZero == [i \in DOMAIN LandMax |-> 0]

\* Values for the fields of the Land Platform layout: nothing set,
\* everything set, one field set and one field clear.
LandValues ==
    {LandZero, LandMax}
    \cup {[i \in DOMAIN LandMax |-> IF i = k THEN LandMax[i] ELSE 0] :
              k \in DOMAIN LandMax}
    \cup {[i \in DOMAIN LandMax |-> IF i = k THEN 0 ELSE LandMax[i]] :
              k \in DOMAIN LandMax}
    \cup {[i \in DOMAIN LandMax |-> IF i = k THEN 1 ELSE 0] : k \in {4, 7, 8, 14}}
    \cup {[i \in DOMAIN LandMax |-> IF i = 8 THEN v ELSE 0] : v \in 2 .. 6}

\* LandPlatformAppearance._struct(*values).serialize(outputStream)
PackLand(values) ==
    /\ op' = "bitfield.serialize"
    /\ arg' = Some(values)
    /\ out' = <<Bitfield_serialize(LandPlatformAppearance_struct, values)>>
    /\ ret' = "None"
    /\ fault' = "none"
    /\ inp' = <<>>
    /\ pos' = 0
    /\ UNCHANGED <<items, shared>>

\* LandPlatformAppearance._struct.parse(inputStream) on the bytes written.
UnpackLand ==
    /\ op = "bitfield.serialize"
    /\ op' = "bitfield.parse"
    /\ inp' = Bytes(out)
    /\ pos' = Bitfield_marshalledSize(LandPlatformAppearance_struct)
    /\ ret' = Bitfield_parse(LandPlatformAppearance_struct, Bytes(out), 0)
    /\ fault' = "none"
    /\ UNCHANGED <<arg, out, items, shared>>

\* What a record reports and writes: marshalledSize() taken first,
\* serialize(outputStream) after it.
Sized(cls, size, writes) == [cls |-> cls, size |-> size, writes |-> writes]

FixedFloats == {0, 1, 1065353216}

FixedData == {<<>>, <<1, 2, 3>>, ZeroBytes(4), <<1, 2, 3, 4, 5>>}

FixedAppearances ==
    {UnknownAppearance(d) : d \in FixedData}
    \cup {LandPlatformAppearance(v) : v \in {LandZero, LandMax}}

FixedRecords ==
    {Sized("EulerAngles", EulerAngles_marshalledSize(r),
           EulerAngles_serialize(r)) :
         r \in {EulerAngles(a, b, 0) : a, b \in FixedFloats}}
    \cup {Sized("Vector3Float", Vector3Float_marshalledSize(r),
                Vector3Float_serialize(r)) :
              r \in {Vector3Float(a, 0, b) : a, b \in FixedFloats}}
    \cup {Sized("SpreadSpectrum", SpreadSpectrum_marshalledSize(r),
                SpreadSpectrum_serialize(r)) :
              r \in {SpreadSpectrum(a, b, c, p) :
                         a, b, c \in {0, 1}, p \in {0, 8191}}}
    \cup {Sized("NetId", NetId_marshalledSize(r), NetId_serialize(r)) :
              r \in {NetId(n, f, m, 0) :
                         n \in {0, 1023}, f \in {0, 3}, m \in {0, 3}}}
    \cup {Sized("ModulationType", ModulationType_marshalledSize(r),
                ModulationType_serialize(r)) :
              r \in {ModulationType(SpreadSpectrum(a, 0, 1, 0), m, 0, 65535) :
                         a \in {0, 1}, m \in {0, 1, 65535}}}
    \cup {Sized("GenericRadio", GenericRadio_marshalledSize(r),
                GenericRadio_serialize(r)) : r \in {<<>>}}
    \cup {Sized("UnknownRadio", UnknownRadio_marshalledSize(r),
                UnknownRadio_serialize(r)) :
              r \in {[data |-> d] : d \in FixedData}}
    \cup {Sized("UnknownAntennaPattern",
                UnknownAntennaPattern_marshalledSize(r),
                UnknownAntennaPattern_serialize(r)) :
              r \in {[data |-> d] : d \in FixedData}}
    \cup {Sized("BasicHaveQuickMP", BasicHaveQuickMP_marshalledSize(r),
                BasicHaveQuickMP_serialize(r)) :
              r \in {BasicHaveQuickMP(NetId(n, 0, 1, 0), m, t) :
                         n \in {0, 1023}, m \in {1, 65535}, t \in {0, 1}}}
    \cup {Sized("CCTTSincgarsMP", CCTTSincgarsMP_marshalledSize(r),
                CCTTSincgarsMP_serialize(r)) :
              r \in {CCTTSincgarsMP(n, s, t) :
                         n \in {0, 65535}, s \in {0, 255}, t \in {0, 1}}}
    \cup {Sized("BeamAntennaPattern", BeamAntennaPattern_marshalledSize(r),
                BeamAntennaPattern_serialize(r)) :
              r \in {BeamAntennaPattern(EulerAngles(a, 0, 0), b, s, 0) :
                         a, b \in FixedFloats, s \in {0, 255}}}
    \cup {Sized("LiveSimulationAddress",
                LiveSimulationAddress_marshalledSize(r),
                LiveSimulationAddress_serialize(r)) :
              r \in {[site |-> a, application |-> b] : a, b \in {0, 255}}}
    \cup {Sized("SimulationAddress", SimulationAddress_marshalledSize(r),
                SimulationAddress_serialize(r)) :
              r \in {[site |-> a, application |-> b] : a, b \in {0, 65535}}}
    \cup {Sized("LiveEventIdentifier", LiveEventIdentifier_marshalledSize(r),
                LiveEventIdentifier_serialize(r)) :
              r \in {LiveEventIdentifier(l, a, 1, e) :
                         l \in BOOLEAN, a \in {0, 255}, e \in {0, 65535}}}
    \cup {Sized("EventIdentifier", EventIdentifier_marshalledSize(r),
                EventIdentifier_serialize(r)) :
              r \in {EventIdentifier(a, 1, e) :
                         a \in {0, 65535}, e \in {0, 65535}}}
    \cup {Sized(r.cls, marshalledSize(r), serialize(r)) : r \in AllSVRecords}
    \cup {Sized(r.cls, AppearanceRecord_marshalledSize(r),
                Appearance_serialize(r)) : r \in FixedAppearances}
    \cup {Sized("SilentEntitySystem", SilentEntitySystem_marshalledSize(r),
                SilentEntitySystem_serialize(r)) :
              r \in {SilentEntitySystem(n, EntityType(1, 1, 225), a) :
                         n \in {0, 1},
                         a \in SeqsUpTo(FixedAppearances, MaxItems)}}

\* size = record.marshalledSize(); record.serialize(outputStream)
SerializeFixed(m) ==
    /\ op' = "fixed.serialize"
    /\ arg' = Some(m.cls)
    /\ ret' = m.size
    /\ out' = m.writes
    /\ fault' = "none"
    /\ inp' = <<>>
    /\ pos' = 0
    /\ UNCHANGED <<items, shared>>

----------------------------------------------------------------------------
(* Calls on the appearance records                                         *)

AppearanceNames ==
    {AppearanceClasses[i].name : i \in DOMAIN AppearanceClasses}
    \cup {"UnknownAppearance"}

\* The parameters of the constructor of a class.
Parameters(cls) ==
    {cls.init[i].param : i \in DOMAIN cls.init} \ {""}

\* Keyword arguments handed to a constructor: none, one parameter set,
\* every parameter set, every parameter cleared.
Keywords(cls) ==
    {NoArguments}
    \cup {[p \in {q} |-> 1] : q \in Parameters(cls)}
    \cup {[p \in Parameters(cls) |-> v] : v \in {0, 1}}

\* Four bytes of a stream holding an appearance record.
AppearanceWords ==
    {ZeroBytes(4), <<255, 255, 255, 255>>, <<1, 2, 3, 4>>, <<128, 0, 64, 1>>}

\* name(**kwargs).serialize(outputStream) on an empty stream.
SerializeAppearance(name, kwargs) ==
    LET self == AppearanceClass_init(AppearanceClass(name), kwargs)
        w == AppearanceRecord_serialize(self)
    IN  /\ op' = "appearance.serialize"
        /\ arg' = Some(self)
        /\ out' = w.out
        /\ fault' = w.fault
        /\ ret' = "None"
        /\ inp' = <<>>
        /\ pos' = 0
        /\ UNCHANGED <<items, shared>>

\* The bytes just written, parsed into a fresh instance of the same class.
ParseSerializedAppearance ==
    LET r == AppearanceRecord_parse(Appearance_new(arg[1].cls), Bytes(out), 0)
    IN  /\ op = "appearance.serialize"
        /\ fault = "none"
        /\ op' = "appearance.parse"
        /\ inp' = Bytes(out)
        /\ pos' = r.pos
        /\ ret' = r.rec
        /\ fault' = r.fault
        /\ UNCHANGED <<arg, out, items, shared>>

\* name().parse(inputStream) on a stream holding the four bytes b.
DecodeAppearance(name, b) ==
    LET r == AppearanceRecord_parse(Appearance_new(name), b, 0)
    IN  /\ op' = "appearance.decode"
        /\ arg' = Some(name)
        /\ inp' = b
        /\ pos' = r.pos
        /\ ret' = r.rec
        /\ fault' = r.fault
        /\ out' = <<>>
        /\ UNCHANGED <<items, shared>>

\* Serializing the record the last parse filled in.
SerializeDecodedAppearance ==
    /\ op \in {"appearance.decode", "appearance.parse"}
    /\ fault = "none"
    /\ op' = "appearance.reserialize"
    /\ out' = AppearanceRecord_serialize(ret).out
    /\ fault' = AppearanceRecord_serialize(ret).fault
    /\ UNCHANGED <<items, inp, pos, arg, ret, shared>>

\* What serialize does on an instance made with the default arguments of
\* its constructor, for every record class.
DefaultInstances ==
    {[cls |-> n, written |-> AppearanceRecord_serialize(Appearance_new(n))] :
         n \in AppearanceNames}
    \cup {[cls |-> c.name, written |-> VP_serialize(VP_new(c))] :
              c \in {getVariableParameterClass(t).ret : t \in {0, 1, 7}}}
    \cup {[cls |-> r.cls, written |-> Written(serialize(r), "none")] :
              r \in {Unknown(c, 0, <<>>) : c \in UnknownClasses}
                    \cup {HighFidelityHAVEQUICKRadio(NetId(0, 0, 0, 0), 0, 0,
                                                     <<0, 0, 0, 0, 0, 0>>),
                          DirectedEnergyDamageDescription(
                              Vector3Float(0, 0, 0), 0, 0, <<0, 0, 0, 0>>,
                              EventIdentifier(0, 0, 0))}}
    \cup {[cls |-> "EulerAngles",
           written |-> Written(EulerAngles_serialize(EulerAngles(0, 0, 0)),
                               "none")],
          [cls |-> "ModulationType",
           written |-> Written(ModulationType_serialize(
                                   ModulationType(SpreadSpectrum(0, 0, 0, 0),
                                                  0, 0, 0)), "none")],
          [cls |-> "BasicHaveQuickMP",
           written |-> Written(BasicHaveQuickMP_serialize(
                                   BasicHaveQuickMP(NetId(0, 0, 0, 0), 1, 0)),
                               "none")],
          [cls |-> "CCTTSincgarsMP",
           written |-> Written(CCTTSincgarsMP_serialize(
                                   CCTTSincgarsMP(0, 0, 0)), "none")],
          [cls |-> "BeamAntennaPattern",
           written |-> Written(BeamAntennaPattern_serialize(
                                   BeamAntennaPattern(EulerAngles(0, 0, 0),
                                                      0, 0, 0)), "none")],
          [cls |-> "SilentEntitySystem",
           written |-> Written(SilentEntitySystem_serialize(
                                   SilentEntitySystem(0, EntityType(0, 0, 0),
                                                      <<>>)), "none")]}

\* cls().serialize(outputStream) on an empty stream.
SerializeNew(d) ==
    /\ op' = "new.serialize"
    /\ arg' = Some(d.cls)
    /\ out' = d.written.out
    /\ fault' = d.written.fault
    /\ ret' = "None"
    /\ inp' = <<>>
    /\ pos' = 0
    /\ UNCHANGED <<items, shared>>

----------------------------------------------------------------------------
(* Parse of the fixed-layout records and of the known Standard Variable    *)
(* records                                                                 *)

\* self.name.parse(inputStream) done after the reads st, r being what that
\* parse did at the cursor of st.
ReadRecord(st, name, r) ==
    IF st.fault # "none" THEN st
    ELSE Parsed(setattr(st.rec, name, r.rec), r.pos, r.fault)

\* The fields a layout read from the bytes after the first p of s, by name.
Bitfield_record(fields, s, p) ==
    [n \in {fields[i].name : i \in DOMAIN fields} |->
         Bitfield_parse(fields, s, p)[CHOOSE i \in DOMAIN fields :
                                          fields[i].name = n]]

NetId_parse(self, s, p) ==
    IF Remaining(s, p) < Bitfield_marshalledSize(NetId_struct)
    THEN Parsed(self, p, "underrun")
    ELSE LET record_bitfield == Bitfield_record(NetId_struct, s, p)
         IN  Parsed([self EXCEPT
                        !.netNumber = record_bitfield.netNumber,
                        !.frequencyTable = record_bitfield.frequencyTable,
                        !.mode = record_bitfield.mode,
                        !.padding = record_bitfield.padding],
                    p + Bitfield_marshalledSize(NetId_struct), "none")

\* SpreadSpectrum.parse: the three flags are assigned.
SpreadSpectrum_parse(self, s, p) ==
    IF Remaining(s, p) < Bitfield_marshalledSize(SpreadSpectrum_struct)
    THEN Parsed(self, p, "underrun")
    ELSE LET record_bitfield == Bitfield_record(SpreadSpectrum_struct, s, p)
         IN  Parsed([self EXCEPT
                        !.frequencyHopping = record_bitfield.frequencyHopping,
                        !.pseudoNoise = record_bitfield.pseudoNoise,
                        !.timeHopping = record_bitfield.timeHopping],
                    p + Bitfield_marshalledSize(SpreadSpectrum_struct),
                    "none")

ModulationType_parse(self, s, p) ==
    LET r0 == Parsed(self, p, "none")
        r1 == ReadRecord(r0, "spreadSpectrum",
                         SpreadSpectrum_parse(self.spreadSpectrum, s, p))
        r2 == ReadField(r1, s, "majorModulation", 2)
        r3 == ReadField(r2, s, "detail", 2)
    IN  ReadField(r3, s, "radioSystem", 2)

Vector3Float_parse(self, s, p) ==
    LET r1 == ReadField(Parsed(self, p, "none"), s, "x", 4)
        r2 == ReadField(r1, s, "y", 4)
    IN  ReadField(r2, s, "z", 4)

SimulationAddress_parse(self, s, p) ==
    LET r1 == ReadField(Parsed(self, p, "none"), s, "site", 2)
    IN  ReadField(r1, s, "application", 2)

EventIdentifier_parse(self, s, p) ==
    LET r1 == ReadRecord(Parsed(self, p, "none"), "simulationAddress",
                         SimulationAddress_parse(self.simulationAddress, s, p))
    IN  ReadField(r1, s, "eventNumber", 2)

\* HighFidelityHAVEQUICKRadio.parse(inputStream, bytelength)
HighFidelityHAVEQUICKRadio_parse(self, s, p, bytelength) ==
    LET checked == StandardVariableRecord_parse(bytelength)
        r1 == ReadField(Parsed(self, p, "none"), s, "padding1", 2)
        r2 == ReadRecord(r1, "netId", NetId_parse(self.netId, s, r1.pos))
        r3 == ReadField(r2, s, "todTransmitIndicator", 1)
        r4 == ReadField(r3, s, "padding2", 1)
        r5 == ReadField(r4, s, "todDelta", 4)
        r6 == ReadField(r5, s, "wod1", 4)
        r7 == ReadField(r6, s, "wod2", 4)
        r8 == ReadField(r7, s, "wod3", 4)
        r9 == ReadField(r8, s, "wod4", 4)
        r10 == ReadField(r9, s, "wod5", 4)
    IN  IF checked # "none" THEN Parsed(self, p, checked)
        ELSE ReadField(r10, s, "wod6", 4)

\* DirectedEnergyDamageDescription.parse(inputStream, bytelength): the
\* parent's parse is called with the stream alone.
DirectedEnergyDamageDescription_parse(self, s, p, bytelength) ==
    LET checked == StandardVariableRecord_parse(None)
        r1 == ReadField(Parsed(self, p, "none"), s, "padding", 2)
        r2 == ReadRecord(r1, "damageLocation",
                         Vector3Float_parse(self.damageLocation, s, r1.pos))
        r3 == ReadField(r2, s, "damageDiameter", 4)
        r4 == ReadField(r3, s, "temperature", 4)
        r5 == ReadField(r4, s, "componentIdentification", 1)
        r6 == ReadField(r5, s, "componentDamageStatus", 1)
        r7 == ReadField(r6, s, "componentVisualDamageStatus", 1)
        r8 == ReadField(r7, s, "componentVisualSmokeColor", 1)
        r9 == ReadRecord(r8, "eventID",
                         EventIdentifier_parse(self.eventID, s, r8.pos))
    IN  IF checked # "none" THEN Parsed(self, p, checked)
        ELSE ReadField(r9, s, "padding2", 2)

\* sv.parse(inputStream, bytelength), dispatched on the class of sv.
parse(self, s, p, bytelength) ==
    CASE self.cls \in UnknownClasses ->
             UnknownStandardVariable_parse(self, s, p, bytelength)
      [] self.cls = HFHQ ->
             HighFidelityHAVEQUICKRadio_parse(self, s, p, bytelength)
      [] self.cls = DEDD ->
             DirectedEnergyDamageDescription_parse(self, s, p, bytelength)

\* cls() with the default arguments of the constructor.
SV_new(cls) ==
    CASE cls \in UnknownClasses -> Unknown(cls, 0, <<>>)
      [] cls = HFHQ ->
             HighFidelityHAVEQUICKRadio(NetId(0, 0, 0, 0), 0, 0,
                                        <<0, 0, 0, 0, 0, 0>>)
      [] cls = DEDD ->
             DirectedEnergyDamageDescription(Vector3Float(0, 0, 0), 0, 0,
                                             <<0, 0, 0, 0>>,
                                             EventIdentifier(0, 0, 0))

----------------------------------------------------------------------------
(* Calls on the parsers                                                    *)

\* Record lengths handed to a parser, the header included.
DeclaredLengths == {6, 7, 10, 40, 41, 48}

\* Streams positioned after a record header: n bytes that all differ.
PayloadStreams == {[i \in 1 .. n |-> i] : n \in {3, 34, 42}}

\* cls().parse(inputStream, bytelength)
ParseRecord(cls, s, bytelength) ==
    LET r == parse(SV_new(cls), s, 0, Some(bytelength))
    IN  /\ op' = "sv.parse"
        /\ arg' = <<cls, bytelength>>
        /\ inp' = s
        /\ pos' = r.pos
        /\ ret' = r.rec
        /\ fault' = r.fault
        /\ out' = <<>>
        /\ UNCHANGED <<items, shared>>

\* sv.serialize(outputStream), then cls().parse on the bytes that follow
\* the record type and the length, with the length written as bytelength.
ParseOwn(sv) ==
    LET written == Bytes(serialize(sv))
        payload == SubSeq(written, 7, Len(written))
        r == parse(SV_new(sv.cls), payload, 0, Some(U16At(written, 4)))
    IN  /\ op' = "sv.parseOwn"
        /\ arg' = Some(sv)
        /\ out' = serialize(sv)
        /\ inp' = payload
        /\ pos' = r.pos
        /\ ret' = r.rec
        /\ fault' = r.fault
        /\ UNCHANGED <<items, shared>>

\* Two-byte words of a stream holding a SpreadSpectrum.
SpreadSpectrumWords == {<<0, 0>>, <<255, 255>>, <<224, 0>>, <<0, 1>>, <<160, 5>>}

\* Records as they are before a parse.
SpreadSpectrumRecords ==
    {SpreadSpectrum(0, 0, 0, 0), SpreadSpectrum(1, 0, 1, 0),
     SpreadSpectrum(1, 1, 1, 8191), SpreadSpectrum(0, 1, 0, 5)}

\* self.parse(inputStream), then self.serialize(outputStream).
ReparseSpreadSpectrum(self, w) ==
    LET r == SpreadSpectrum_parse(self, w, 0)
    IN  /\ op' = "SpreadSpectrum.parse"
        /\ arg' = Some(self)
        /\ inp' = w
        /\ pos' = r.pos
        /\ ret' = r.rec
        /\ fault' = r.fault
        /\ out' = SpreadSpectrum_serialize(r.rec)
        /\ UNCHANGED <<items, shared>>

\* The same on a ModulationType holding the SpreadSpectrum, the stream
\* going on with the three 16-bit fields.
ReparseModulationType(ss, w) ==
    LET self == ModulationType(ss, 0, 0, 0)
        r == ModulationType_parse(self, w \o <<0, 1, 2, 3, 255, 254>>, 0)
    IN  /\ op' = "ModulationType.parse"
        /\ arg' = Some(self)
        /\ inp' = w \o <<0, 1, 2, 3, 255, 254>>
        /\ pos' = r.pos
        /\ ret' = r.rec
        /\ fault' = r.fault
        /\ out' = ModulationType_serialize(r.rec)
        /\ UNCHANGED <<items, shared>>

----------------------------------------------------------------------------
(* SilentEntitySystem.parse (entity_info/__init__.py)                      *)

\* EntityType.parse (opendis.record.common): the eight bytes its serialize
\* writes, read back in the same order.
EntityType_parse(self, s, p) ==
    LET r1 == ReadField(Parsed(self, p, "none"), s, "entityKind", 1)
        r2 == ReadField(r1, s, "domain", 1)
        r3 == ReadField(r2, s, "country", 2)
        r4 == ReadField(r3, s, "category", 1)
        r5 == ReadField(r4, s, "subcategory", 1)
        r6 == ReadField(r5, s, "specific", 1)
    IN  ReadField(r6, s, "extra", 1)

\* The loop of SilentEntitySystem.parse with n records still to read: the
\* class is looked up from self.entityType for each record, an instance is
\* made with the default arguments, parsed, and appended to
\* self.entityAppearances.  A parse that raises leaves the list as the
\* records before it made it.
RECURSIVE ParseAppearances(_, _, _)
ParseAppearances(st, s, n) ==
    IF n = 0 \/ st.fault # "none" THEN st
    ELSE LET entityAppearanceClass ==
                 getEntityAppearanceClass(st.rec.entityType.entityKind,
                                          Some(st.rec.entityType.domain)).ret
             r == AppearanceRecord_parse(Appearance_new(entityAppearanceClass),
                                         s, st.pos)
         IN  IF r.fault # "none" THEN Parsed(st.rec, r.pos, r.fault)
             ELSE ParseAppearances(
                      Parsed([st.rec EXCEPT !.entityAppearances =
                                                Append(@, r.rec)],
                             r.pos, "none"),
                      s, n - 1)

\* SilentEntitySystem.parse: self.entityAppearances is not emptied first.
SilentEntitySystem_parse(self, s, p) ==
    LET r1 == ReadField(Parsed(self, p, "none"), s, "entityCount", 2)
    IN  IF r1.fault # "none" THEN r1
        ELSE IF Remaining(s, r1.pos) < 2 THEN Parsed(r1.rec, r1.pos, "underrun")
        ELSE LET appearanceRecordCount == U16At(s, r1.pos)
                 r2 == ReadRecord(Parsed(r1.rec, r1.pos + 2, "none"),
                                  "entityType",
                                  EntityType_parse(r1.rec.entityType, s,
                                                   r1.pos + 2))
             IN  ParseAppearances(r2, s, appearanceRecordCount)

\* The appearance records an object holds before parse is called on it.
HeldAppearances ==
    {<<>>, <<UnknownAppearance(ZeroBytes(4))>>,
     <<Appearance_new("LandPlatformAppearance"),
       Appearance_new("RadioAppearance")>>}

SilentWords == <<<<1, 2, 3, 4>>, <<128, 0, 64, 1>>>>

\* Entity kinds and domains on the wire: Other, Platform (Land and Air),
\* Munition, Environmental, Radio.
SilentKinds == {0, 1, 2, 4, 7}

SilentDomains == {0, 1, 2}

\* Streams holding a Silent Entity System record of kind k and domain d with
\* up to two appearance records, and such a stream cut short.
SilentStreams ==
    LET head(n, k, d) == U16(3) \o U16(n) \o <<k, d, 0, 225, 0, 0, 0, 0>>
    IN  {head(n, k, d) \o Flatten(SubSeq(SilentWords, 1, n)) :
             n \in 0 .. 2, k \in SilentKinds, d \in SilentDomains}
        \cup {head(2, k, 1) \o <<1, 2, 3, 4, 5, 6>> : k \in {0, 1, 7}}
        \cup {<<0, 3, 0>>, <<0, 3, 0, 1, 1, 1>>}

\* SilentEntitySystem(entityAppearances=held).parse(inputStream).
ParseSilentEntitySystem(held, s) ==
    LET self == SilentEntitySystem(0, EntityType(0, 0, 0), held)
        r == SilentEntitySystem_parse(self, s, 0)
    IN  /\ op' = "ses.parse"
        /\ arg' = Some(self)
        /\ inp' = s
        /\ pos' = r.pos
        /\ ret' = r.rec
        /\ fault' = r.fault
        /\ out' = <<>>
        /\ UNCHANGED <<items, shared>>

----------------------------------------------------------------------------
(* StandardVariables.parse, statement by statement                         *)
(* op is the statement executed last, inp and pos the input stream and its *)
(* cursor, items self._standardVariables, ret the record sv being built,   *)
(* and arg the locals of the call.                                         *)

\* Faulty variant of ParseBody: the payload read before the length is
\* validated.
ParseBody_payloadFirst ==
    <<"recordType", "recordLength", "construct", "payload", "validate",
      "append">>

\* The statements of the loop body of StandardVariables.parse in the order
\* of the code, those of UnknownStandardVariable.parse in place of the call
\* sv.parse(inputStream, recordLength).
ParseBody ==
    <<"recordType", "recordLength", "construct", "validate", "payload",
      "append">>

\* The locals of StandardVariables.parse: the count read, the number of
\* iterations begun, and the header of the item at hand.
Locals(count, attempted, recordType, recordLength) ==
    [count |-> count, attempted |-> attempted, recordType |-> recordType,
     recordLength |-> recordLength]

\* The statement control reaches next: the count after the reset, the loop
\* body from its first statement while range(0, count) is not exhausted,
\* the end of the method when it is.
NextStatement ==
    CASE op = "init" -> "reset"
      [] op = "reset" -> "count"
      [] op \in {"count", ParseBody[Len(ParseBody)]} ->
             IF arg.attempted < arg.count THEN ParseBody[1] ELSE "return"
      [] op \in {ParseBody[i] : i \in 1 .. Len(ParseBody) - 1} ->
             ParseBody[(CHOOSE i \in DOMAIN ParseBody : ParseBody[i] = op) + 1]
      [] OTHER -> "nothing"

\* An exception leaves parse: nothing catches it.
Raise(f) ==
    /\ op' = "raise"
    /\ fault' = f
    /\ UNCHANGED <<items, inp, pos, out, arg, ret, shared>>

\* self._standardVariables = []
ResetItems ==
    /\ NextStatement = "reset"
    /\ op' = "reset"
    /\ items' = <<>>
    /\ UNCHANGED <<inp, pos, out, fault, arg, ret, shared>>

\* standardVariableRecordCount = inputStream.read_uint16()
ReadCount ==
    /\ NextStatement = "count"
    /\ IF Remaining(inp, pos) < 2 THEN Raise("underrun")
       ELSE /\ op' = "count"
            /\ arg' = [arg EXCEPT !.count = U16At(inp, pos)]
            /\ pos' = pos + 2
            /\ UNCHANGED <<items, inp, out, fault, ret, shared>>

\* recordType = inputStream.read_uint32(), first statement of an iteration
ReadRecordType ==
    /\ NextStatement = "recordType"
    /\ IF Remaining(inp, pos) < 4 THEN Raise("underrun")
       ELSE /\ op' = "recordType"
            /\ arg' = [arg EXCEPT !.recordType = U32At(inp, pos),
                                  !.attempted = @ + 1]
            /\ pos' = pos + 4
            /\ UNCHANGED <<items, inp, out, fault, ret, shared>>

\* recordLength = inputStream.read_uint16()
ReadRecordLength ==
    /\ NextStatement = "recordLength"
    /\ IF Remaining(inp, pos) < 2 THEN Raise("underrun")
       ELSE /\ op' = "recordLength"
            /\ arg' = [arg EXCEPT !.recordLength = U16At(inp, pos)]
            /\ pos' = pos + 2
            /\ UNCHANGED <<items, inp, out, fault, ret, shared>>

\* sv = UnknownStandardVariable(recordType)
ConstructItem ==
    /\ NextStatement = "construct"
    /\ op' = "construct"
    /\ ret' = NewItem(arg.recordType)
    /\ UNCHANGED <<items, inp, pos, out, fault, arg, shared>>

\* sv.parse: assert bytelength is not None; super().parse(inputStream,
\* bytelength)
ValidateLength ==
    /\ NextStatement = "validate"
    /\ IF StandardVariableRecord_parse(Some(arg.recordLength)) # "none"
       THEN Raise(StandardVariableRecord_parse(Some(arg.recordLength)))
       ELSE /\ op' = "validate"
            /\ UNCHANGED <<items, inp, pos, out, fault, arg, ret, shared>>

\* sv.parse: self.data = inputStream.read_bytes(bytelength - 6)
ReadPayload ==
    LET n == arg.recordLength - StandardVariableRecord_marshalledSize(ret)
    IN  /\ NextStatement = "payload"
        /\ IF Remaining(inp, pos) < n THEN Raise("underrun")
           ELSE /\ op' = "payload"
                /\ ret' = [ret EXCEPT !.data = SubSeq(inp, pos + 1, pos + n)]
                /\ pos' = pos + n
                /\ UNCHANGED <<items, inp, out, fault, arg, shared>>

\* self._standardVariables.append(sv)
AppendParsed ==
    /\ NextStatement = "append"
    /\ op' = "append"
    /\ items' = Append(items, ret)
    /\ UNCHANGED <<inp, pos, out, fault, arg, ret, shared>>

\* The loop is over and the method ends.
ReturnFromParse ==
    /\ NextStatement = "return"
    /\ op' = "return"
    /\ UNCHANGED <<items, inp, pos, out, fault, arg, ret, shared>>

----------------------------------------------------------------------------
(* Specifications                                                          *)

\* StandardVariables(standardVariables): no check is made on the elements.
Init ==
    /\ items \in {StandardVariables_init(sv) : sv \in SeqsUpTo(Values, MaxItems)}
    /\ inp = <<>>
    /\ pos = 0
    /\ out = <<>>
    /\ fault = "none"
    /\ op = "init"
    /\ arg = None
    /\ ret = NoValue
    /\ registries = Registries0
    /\ heap = Heap0
    /\ callers = <<>>

Next ==
    \/ \E i \in -1 .. MaxItems, v \in Values : Insert(i, v)
    \/ \E v \in Values : AppendItem(v)
    \/ \E vs \in SeqsUpTo(Values, MaxItems) : Extend(vs)
    \/ \E k \in -1 .. MaxItems, v \in Values : SetItem(k, v)
    \/ \E i \in -1 .. MaxItems : DelItem(i)
    \/ Count
    \/ Serialize
    \/ ParseSerialized

Spec == Init /\ [][Next]_vars

\* A fresh StandardVariables and a stream waiting to be parsed.
InitWire ==
    /\ items = <<>>
    /\ inp \in WireStreams
    /\ pos = 0
    /\ out = <<>>
    /\ fault = "none"
    /\ op = "init"
    /\ arg = None
    /\ ret = NoValue
    /\ registries = Registries0
    /\ heap = Heap0
    /\ callers = <<>>

NextWire ==
    \/ ParseWire
    \/ Serialize

SpecWire == InitWire /\ [][NextWire]_vars

InitCalls ==
    /\ items = <<>>
    /\ inp = <<>>
    /\ pos = 0
    /\ out = <<>>
    /\ fault = "none"
    /\ op = "init"
    /\ arg = None
    /\ ret = NoValue
    /\ registries = Registries0
    /\ heap = Heap0
    /\ callers = <<>>

NextCalls ==
    \/ \E sv \in AllSVRecords : SerializeRecord(sv)
    \/ \E t \in RecordTypes, e \in ExpectedTypes : GetSVClass(t, e)
    \/ \E t \in RecordTypes : GetSVClassDefault(t)
    \/ \E k \in Kinds, d \in Domains : GetEntityAppearanceClass(k, d)

SpecCalls == InitCalls /\ [][NextCalls]_vars

\* Calls on the fixed-layout records, each on fresh objects and streams.
NextRecords ==
    \/ \E t \in VPTypes : GetVariableParameterClass(t)
    \/ \E vp \in VPRecords : SerializeVP(vp)
    \/ \E s \in VPStreams : DecodeVP(s)
    \/ SerializeDecodedVP
    \/ \E d \in DeclaredBitfields : DeclareBitfield(d)
    \/ \E v \in LandValues : PackLand(v)
    \/ UnpackLand
    \/ \E m \in FixedRecords : SerializeFixed(m)

SpecRecords == InitCalls /\ [][NextRecords]_vars

\* Calls on the appearance records and on freshly made records of every
\* class, each on fresh objects and streams.
NextAppearance ==
    \/ \E d \in DefaultInstances : SerializeNew(d)
    \/ \E i \in DOMAIN AppearanceClasses :
           \E k \in Keywords(AppearanceClasses[i]) :
               SerializeAppearance(AppearanceClasses[i].name, k)
    \/ ParseSerializedAppearance
    \/ \E n \in AppearanceNames, b \in AppearanceWords : DecodeAppearance(n, b)
    \/ SerializeDecodedAppearance
    \/ \E s \in VPStreams : DecodeVP(s)
    \/ SerializeDecodedVP

SpecAppearance == InitCalls /\ [][NextAppearance]_vars

\* Calls on the parsers of single records, each on fresh objects and
\* streams.
NextParsers ==
    \/ \E c \in SVClasses \ {SVBase, VTP, DDR}, s \in PayloadStreams,
          n \in DeclaredLengths : ParseRecord(c, s, n)
    \/ \E sv \in HFHQRecords \cup DEDDRecords \cup SVRecords : ParseOwn(sv)
    \/ \E r \in SpreadSpectrumRecords, w \in SpreadSpectrumWords :
           ReparseSpreadSpectrum(r, w)
    \/ \E r \in SpreadSpectrumRecords, w \in SpreadSpectrumWords :
           ReparseModulationType(r, w)

SpecParsers == InitCalls /\ [][NextParsers]_vars

NextEntity ==
    \E held \in HeldAppearances : \E s \in SilentStreams :
        ParseSilentEntitySystem(held, s)

SpecEntity == InitCalls /\ [][NextEntity]_vars

\* sv.parse(inputStream) about to be called on a StandardVariables that
\* holds nothing or one record, the stream at its start.
InitSteps ==
    /\ items \in {<<>>, <<Unknown(USV, 7, <<1>>)>>}
    /\ inp \in WireStreams
    /\ pos = 0
    /\ out = <<>>
    /\ fault = "none"
    /\ op = "init"
    /\ arg = Locals(0, 0, 0, 0)
    /\ ret = NewItem(0)
    /\ registries = Registries0
    /\ heap = Heap0
    /\ callers = <<>>

NextSteps ==
    \/ ResetItems
    \/ ReadCount
    \/ ReadRecordType
    \/ ReadRecordLength
    \/ ConstructItem
    \/ ValidateLength
    \/ ReadPayload
    \/ AppendParsed
    \/ ReturnFromParse

SpecSteps == InitSteps /\ [][NextSteps]_vars

\* Record types the concurrent callers resolve, and kinds they look up.
SharedTypes == {0 - 1, 0, 7, 255}

\* Arguments that are not integers: "7" and 1.0.
NonIntegers == {[type |-> "str", value |-> 7], [type |-> "float", value |-> 1]}

InitShared ==
    /\ items = <<>>
    /\ inp = <<>>
    /\ pos = 0
    /\ out = <<>>
    /\ fault = "none"
    /\ op = "init"
    /\ arg = None
    /\ ret = NoValue
    /\ registries = Registries0
    /\ heap = Heap0
    /\ callers = [c \in 1 .. MaxCallers |-> Idle]

NextShared ==
    \E c \in 1 .. MaxCallers :
        \/ \E t \in SharedTypes : CallGetVariableParameterClass(c, t)
        \/ \E v \in NonIntegers : CallGetVariableParameterClassWith(c, v)
        \/ \E t \in SharedTypes \ {0 - 1} : CallDecode(c, t)
        \/ DefineLocalClass(c)
        \/ CheckRecordType(c)
        \/ LookUpClass(c)
        \/ SetRecordType(c)
        \/ ReturnClass(c)
        \/ ParseSlot(c)
        \/ \E t \in {0, 7, 3000} : CallGetSVClass(c, t)
        \/ \E k \in {1, 3} : CallGetEntityAppearanceClass(c, k, Some(2))

SpecShared == InitShared /\ [][NextShared]_vars

----------------------------------------------------------------------------
(* Properties                                                              *)

\* The registered class of a record type, the Unknown variant otherwise.
Registered(recordType) ==
    IF recordType \in DOMAIN SVTypeMap THEN SVTypeMap[recordType] ELSE USV

\* The wire form of a sequence holding one record of type t and payload d.
OneRecord(t, d) == U16(1) \o Wire(t, 6 + Len(d), d)

\* Offset in s of the first record header whose length field is below 6,
\* walking at most n records from offset p over whole records longer than
\* their header; -1 when there is none.
RECURSIVE ShortHeader(_, _, _)
ShortHeader(s, p, n) ==
    IF n = 0 \/ Remaining(s, p) < 6 THEN -1
    ELSE LET len == U16At(s, p + 4)
         IN  IF len < 6 THEN p
             ELSE IF len = 6 \/ Remaining(s, p + 6) < len - 6 THEN -1
             ELSE ShortHeader(s, p + len, n - 1)

\* The same for the stream of the last parse, the count field giving n.
ShortHeaderParsed ==
    IF op = "parse" /\ Remaining(inp, 0) >= 2
    THEN ShortHeader(inp, 2, U16At(inp, 0))
    ELSE -1

\* C1: an unregistered record type with a non-empty payload, alone in a
\* sequence on the wire, parses to one UnknownStandardVariable holding that
\* type and payload, and the parsed sequence serializes to the same bytes.
C1_UnknownRoundTrip ==
    \A t \in RecordTypes \ DOMAIN SVTypeMap, d \in Payloads \ {<<>>} :
        (op = "parse" /\ inp = OneRecord(t, d)) =>
            /\ fault = "none"
            /\ items = <<Unknown(USV, t, d)>>
            /\ Bytes(StandardVariables_serialize(items).out) = inp

C1_Witness ==
    /\ op = "parse"
    /\ inp = OneRecord(BigType, <<170, 187>>)
    /\ items = <<Unknown(USV, BigType, <<170, 187>>)>>

\* C2: a record whose length field is below 6 ends the parse with
\* ValueError, the cursor left right after the 6-byte header: no payload
\* byte of that record is read.
C2_ShortLengthRejected ==
    ShortHeaderParsed >= 0 =>
        /\ fault = "ValueError"
        /\ pos = ShortHeaderParsed + 6

C2_Witness ==
    /\ ShortHeaderParsed = 9
    /\ U16At(inp, ShortHeaderParsed + 4) = 5
    /\ Len(items) = 1
    /\ Remaining(inp, pos) > 0
    /\ fault = "ValueError"

\* C3: a header-only record (length field exactly 6) parses without a
\* fault to a record with an empty payload, the cursor right after the
\* header.
C3_HeaderOnlyParses ==
    \A t \in RecordTypes :
        (op = "parse" /\ inp = OneRecord(t, <<>>)) =>
            /\ fault = "none"
            /\ items = <<Unknown(USV, t, <<>>)>>
            /\ pos = 8

C5_SequenceRoundTrip ==
    (op = "parse" /\ arg = Some("serialized")) =>
        /\ fault = "none"
        /\ Len(items) = U16At(inp, 0)
        /\ Bytes(StandardVariables_serialize(items).out) = inp

\* C6: after any operations the count property is the number of items, and
\* the count serialize writes first is the number of items at that moment.
C6_CountIsLength ==
    /\ op = "count" => ret = Len(items)
    /\ op = "serialize" => (Len(out[1]) = 2 /\ U16At(out[1], 0) = Len(items))

C6_Witness ==
    /\ op = "serialize"
    /\ fault = "none"
    /\ Len(items) = MaxItems
    /\ \E i \in 1 .. Len(items) :
           items[i].cls = USV /\ Len(items[i].data) > MaxPayload

\* C7: every item StandardVariables.parse decodes has the class the
\* registry holds for its record type (3000 HighFidelityHAVEQUICKRadio,
\* 4500 DirectedEnergyDamageDescription), and the Unknown variant only for
\* an unregistered type.
C7_ParseDispatches ==
    op = "parse" =>
        \A i \in 1 .. Len(items) :
            items[i].cls = Registered(items[i].recordType)

\* C8: getSVClass(recordType) never fails; it returns the registered class,
\* or UnknownStandardVariable for an unregistered type.
C8_ResolveNeverFails ==
    (op = "getSVClass" /\ Len(arg) = 1) =>
        /\ fault = "none"
        /\ ret = Registered(arg[1])

\* C9: getSVClass(recordType, expectedType) raises TypeError exactly when
\* the class resolved for recordType is not a subclass of expectedType, and
\* returns the resolved class otherwise.
C9_StrictResolve ==
    (op = "getSVClass" /\ Len(arg) = 2 /\ arg[2] # None) =>
        LET resolved == Registered(arg[1])
        IN  IF issubclass(resolved, arg[2][1])
            THEN fault = "none" /\ ret = resolved
            ELSE fault = "TypeError"

\* The class the rules are said to give each key.
PlatformClass(domain) ==
    CASE domain = Some(1) -> "LandPlatformAppearance"
      [] domain = Some(2) -> "AirPlatformAppearance"
      [] domain = Some(3) -> "SurfacePlatformAppearance"
      [] domain = Some(4) -> "SubsurfacePlatformAppearance"
      [] domain = Some(5) -> "SpacePlatformAppearance"
      [] OTHER -> "UnknownAppearance"

KindClass(kind) ==
    CASE kind = 2 -> "MunitionAppearance"
      [] kind = 3 -> "HumanLifeFormAppearance"
      [] kind = 4 -> "EnvironmentalAppearance"
      [] kind = 5 -> "CulturalFeatureAppearance"
      [] kind = 6 -> "SupplyAppearance"
      [] kind = 7 -> "RadioAppearance"
      [] kind = 8 -> "ExpendableAppearance"
      [] kind = 9 -> "SensorEmitterAppearance"
      [] OTHER -> "UnknownAppearance"

\* C10: getEntityAppearanceClass returns for every kind and domain, None
\* included: kind 1 gives the platform class of domains 1..5, kinds 2..9
\* their class whatever the domain, every other key UnknownAppearance.
C10_AppearanceDispatch ==
    op = "getEntityAppearanceClass" =>
        /\ fault = "none"
        /\ ret = IF arg[1] = 1 THEN PlatformClass(arg[2]) ELSE KindClass(arg[1])

C10_Witness ==
    /\ op = "getEntityAppearanceClass"
    /\ arg = <<1, Some(2)>>
    /\ ret = "AirPlatformAppearance"

\* C11: every Variable Parameter record takes 16 bytes: marshalledSize()
\* is 16, serialize writes the record type byte and then 15 more bytes, and
\* parse, called after the record type byte was read, consumes the 15 bytes
\* that follow it.
C11_FixedSlot ==
    /\ op = "vp.serialize" =>
           /\ ret = 16
           /\ fault = "none"
           /\ out[1] = U8(arg[1].recordType)
           /\ Len(Bytes(out)) = 16
    /\ op = "vp.parse" => (fault = "none" /\ pos = 16)

\* C12: getVariableParameterClass of a non-negative record type returns the
\* registered class, or for an unregistered type a placeholder class whose
\* recordType attribute is that type.
C12_PlaceholderCarriesType ==
    (op = "getVariableParameterClass" /\ arg[1] >= 0) =>
        /\ fault = "none"
        /\ IF arg[1] \in DOMAIN variableParameterClasses
           THEN ret = variableParameterClasses[arg[1]]
           ELSE /\ ret.name = UVP
                /\ hasattr(ret, "recordType")
                /\ ret.recordType = arg[1]

\* C13: the placeholder of an unregistered record type keeps the 15 payload
\* bytes of its slot as they are, and serializes to the record type byte
\* followed by those 15 bytes.
C13_PlaceholderRoundTrip ==
    /\ (op = "vp.parse" /\ arg[1] \notin DOMAIN variableParameterClasses) =>
           /\ fault = "none"
           /\ ret.data = SubSeq(inp, 2, 16)
    /\ (op = "vp.reserialize"
        /\ arg[1] \notin DOMAIN variableParameterClasses) =>
           /\ fault = "none"
           /\ Bytes(out) = SubSeq(inp, 1, 16)

\* C14: seq[k] = v with a valid index k and a record v ends without a
\* fault, stores v at position k and leaves the other items as they were.
C14_ReplaceStores ==
    [][\A k \in 0 .. MaxItems - 1, v \in SVRecords :
           (k < Len(items) /\ SetItem(k, v)) =>
               /\ fault' = "none"
               /\ items' = [items EXCEPT ![k + 1] = v]]_vars

\* The records at the head of values, up to the first value that is not a
\* Standard Variable record.
RECURSIVE RecordPrefix(_)
RecordPrefix(values) ==
    IF values = <<>> \/ Head(values) = NotARecord THEN <<>>
    ELSE <<Head(values)>> \o RecordPrefix(Tail(values))

HasNonRecord(values) == \E i \in 1 .. Len(values) : values[i] = NotARecord

\* C15 as claimed: insert, append and extend of a value that is not a
\* Standard Variable record end with TypeError and leave the items as they
\* were.
C15_RejectedCallChangesNothing ==
    [][/\ \A i \in -1 .. MaxItems :
              Insert(i, NotARecord) =>
                  (fault' = "TypeError" /\ items' = items)
       /\ AppendItem(NotARecord) => (fault' = "TypeError" /\ items' = items)
       /\ \A vs \in SeqsUpTo(Values, MaxItems) :
              (HasNonRecord(vs) /\ Extend(vs)) =>
                  (fault' = "TypeError" /\ items' = items)]_vars

\* C15: insert and append of a value that is not a Standard Variable record
\* end with TypeError and leave the items as they were; extend ends with
\* TypeError at the first such value, having appended the records that
\* come before it and nothing else.
C15_NonRecordRejected ==
    [][/\ \A i \in -1 .. MaxItems :
              Insert(i, NotARecord) =>
                  (fault' = "TypeError" /\ items' = items)
       /\ AppendItem(NotARecord) => (fault' = "TypeError" /\ items' = items)
       /\ \A vs \in SeqsUpTo(Values, MaxItems) :
              (HasNonRecord(vs) /\ Extend(vs)) =>
                  /\ fault' = "TypeError"
                  /\ items' = items \o RecordPrefix(vs)]_vars

C15_Witness ==
    /\ op = "extend"
    /\ fault = "TypeError"
    /\ Len(items) = MaxItems - 1
    /\ items[Len(items)] # NotARecord

\* Whether the stream s runs out within the n records announced from
\* offset p on, every record before that being whole and longer than its
\* header.
RECURSIVE RunsOut(_, _, _)
RunsOut(s, p, n) ==
    /\ n > 0
    /\ \/ Remaining(s, p) < 6
       \/ LET len == U16At(s, p + 4)
          IN  /\ len > 6
              /\ \/ Remaining(s, p + 6) < len - 6
                 \/ RunsOut(s, p + len, n - 1)

\* The whole records of s from offset p on, at most n, up to the first
\* that is cut short or not longer than its header.
RECURSIVE WholeRecords(_, _, _)
WholeRecords(s, p, n) ==
    IF n = 0 \/ Remaining(s, p) < 6 THEN <<>>
    ELSE LET len == U16At(s, p + 4)
         IN  IF len <= 6 \/ Remaining(s, p + 6) < len - 6 THEN <<>>
             ELSE <<Unknown(USV, U32At(s, p), SubSeq(s, p + 7, p + len))>>
                  \o WholeRecords(s, p + len, n - 1)

\* C16: when the stream runs out before the announced count of records is
\* read, StandardVariables.parse ends with the reader's underrun fault, and
\* the items are the records that were whole before it, as they were read.
C16_UnderrunPropagates ==
    (op = "parse" /\ Remaining(inp, 0) >= 2
     /\ RunsOut(inp, 2, U16At(inp, 0))) =>
        /\ fault = "underrun"
        /\ items = WholeRecords(inp, 2, U16At(inp, 0))

C16_Witness ==
    /\ op = "parse"
    /\ U16At(inp, 0) = 2
    /\ RunsOut(inp, 2, 2)
    /\ Len(items) = 1
    /\ Remaining(inp, pos) > 0
    /\ fault = "underrun"

\* C17: whatever the interleaving of the callers' steps, no step changes a
\* registry, and no step changes a class object already handed to a caller
\* or which class a caller other than the one stepping was handed.
C17_SharedStateUntouched ==
    [][/\ registries' = registries
       /\ registries = Registries0
       /\ \A c \in DOMAIN callers :
              callers[c].handed # 0 =>
                  /\ heap'[callers[c].handed] = heap[callers[c].handed]
                  /\ callers'[c].handed # callers[c].handed =>
                         callers[c].pc = "return"]_vars

\* One caller holds the placeholder class it was handed while another is
\* in the middle of resolving a different unknown type.
C17_Witness ==
    /\ MaxCallers >= 2
    /\ callers # <<>>
    /\ callers[1].handed > Len(Heap0)
    /\ callers[1].args = <<7>>
    /\ callers[2].pc = "return"
    /\ callers[2].args = <<255>>
    /\ callers[2].vrClass > Len(Heap0)
    /\ callers[2].vrClass # callers[1].handed

\* C18: every bit-field layout the source declares fills its container
\* exactly, 32 bits for the thirteen appearance layouts and 16 bits for
\* NetId and SpreadSpectrum, so no declaration raises the configuration
\* fault.
C18_WidthsFillContainer ==
    op = "bitfield" =>
        /\ fault = "none"
        /\ ret = IF arg[1] \in {"NetId", "SpreadSpectrum"} THEN 16 ELSE 32

\* Every value is within the width of its field.
InRange(fields, values) ==
    /\ Len(values) = Len(fields)
    /\ \A i \in DOMAIN fields :
           /\ values[i] >= 0
           /\ Len(Bits(values[i], fields[i].width)) = fields[i].width
           /\ BitsValue(Bits(values[i], fields[i].width)) = values[i]

\* C19: in the Land Platform layout, zero in every field is written as
\* four zero bytes, and unpacking what was packed returns every in-range
\* value, the largest value of every field included.
C19_LandPackUnpack ==
    /\ (op = "bitfield.serialize" /\ arg[1] = LandZero) =>
           Bytes(out) = <<0, 0, 0, 0>>
    /\ (op = "bitfield.serialize" /\ arg[1] = LandMax) =>
           Bytes(out) = <<255, 255, 255, 255>>
    /\ op = "bitfield.parse" =>
           /\ InRange(LandPlatformAppearance_struct, arg[1])
           /\ Len(inp) = 4
           /\ ret = arg[1]

C19_Witness ==
    /\ op = "bitfield.parse"
    /\ arg[1] = LandMax
    /\ ret = LandMax
    /\ inp = <<255, 255, 255, 255>>

\* C20: for every record class other than the Variable Parameter records,
\* the size reported before serialization is the number of bytes
\* serialization writes.
C20_SizeIsBytesWritten ==
    op = "fixed.serialize" => ret = Len(Bytes(out))

\* C21: serialize raises nothing on an instance made with the default
\* arguments of its constructor, nor on an instance a parse filled in
\* without a fault, whatever the record class.
C21_SerializeCompletes ==
    op \in {"new.serialize", "vp.reserialize", "appearance.reserialize"} =>
        fault = "none"

\* C24: an appearance record with a bit layout, serialized and parsed into
\* a fresh instance of its class, has the same value in every attribute
\* the constructor sets and in every field the layout names.
C24_AppearanceRoundTrip ==
    /\ op = "appearance.serialize" => fault = "none"
    /\ op = "appearance.parse" =>
        /\ fault = "none"
        /\ \A n \in DOMAIN arg[1].attrs :
               hasattr(ret.attrs, n) /\ ret.attrs[n] = arg[1].attrs[n]
        /\ \A i \in DOMAIN AppearanceClass(ret.cls).fields :
               hasattr(ret.attrs, AppearanceClass(ret.cls).fields[i].name)

\* C25: an UnknownAppearance parsed from four bytes writes those four
\* bytes when serialized.
C25_UnknownAppearanceKeepsBytes ==
    (op = "appearance.reserialize" /\ ret.cls = "UnknownAppearance") =>
        /\ fault = "none"
        /\ Bytes(out) = inp

\* C22: a Standard Variable record parser handed a declared length L
\* greater than 6 and ending without a fault has moved the cursor by
\* exactly L - 6 bytes.
C22_ParserConsumesDeclaredLength ==
    (op = "sv.parse" /\ fault = "none" /\ arg[2] > 6) => pos = arg[2] - 6

\* C26: HighFidelityHAVEQUICKRadio and DirectedEnergyDamageDescription
\* parse the payload their own serialize wrote, handed the length
\* written, without a fault and to the same field values.
C26_KnownClassesAcceptOwnOutput ==
    (op = "sv.parseOwn" /\ arg[1].cls \in {HFHQ, DEDD}) =>
        /\ U16At(Bytes(out), 4) = 40
        /\ fault = "none"
        /\ ret = arg[1]

\* C29: a SpreadSpectrum, alone or in a ModulationType, parsed from a
\* stream and serialized again writes the bytes it was parsed from,
\* whatever it held before.
C29_SpreadSpectrumReparse ==
    op \in {"SpreadSpectrum.parse", "ModulationType.parse"} =>
        /\ fault = "none"
        /\ Bytes(out) = inp

\* C27: every item of a StandardVariables is a StandardVariableRecord,
\* whatever sequence it was constructed from and whatever operations
\* followed.
C27_ItemsAreRecords ==
    \A i \in DOMAIN items : IsSVRecord(items[i])

\* C28: after a successful SilentEntitySystem.parse the object holds as many
\* appearance records as the count read from the wire, whatever it held
\* before, each of the class getEntityAppearanceClass gives for the entity
\* kind and domain read from the same stream.
C28_ParseReplacesAppearances ==
    (op = "ses.parse" /\ fault = "none") =>
        /\ Len(ret.entityAppearances) = U16At(inp, 2)
        /\ \A i \in DOMAIN ret.entityAppearances :
               ret.entityAppearances[i].cls =
                   getEntityAppearanceClass(inp[5], Some(inp[6])).ret

\* C23: in StandardVariables.parse every item is handled in the order read
\* record type (4 bytes), read length (2 bytes), validate the length, read
\* the payload; the payload is read only after the length was validated, an
\* item is begun only after the payload of the one before was consumed and
\* stored, no other statement moves the cursor, and a parse that returns
\* has attempted exactly count items.
C23_StrictOrder ==
    [][/\ op' = "recordType" =>
              /\ op \in {"count", "append"}
              /\ arg.attempted > 0 => op = "append"
              /\ arg.attempted < arg.count
              /\ arg'.attempted = arg.attempted + 1
              /\ pos' = pos + 4
       /\ op' = "recordLength" => op = "recordType" /\ pos' = pos + 2
       /\ op' = "validate" =>
              /\ op \in {"recordLength", "construct"}
              /\ arg.recordLength > 6
              /\ pos' = pos
       /\ op' = "payload" =>
              /\ op = "validate"
              /\ pos' = pos + arg.recordLength - 6
              /\ ret'.data = SubSeq(inp, pos + 1, pos')
       /\ op' = "append" => op = "payload" /\ items' = Append(items, ret)
       /\ op' = "return" =>
              /\ arg.attempted = arg.count
              /\ Len(items) = arg.count
       /\ pos' # pos =>
              op' \in {"count", "recordType", "recordLength", "payload"}
       /\ arg'.attempted <= arg'.count \/ op' = "reset"
      ]_vars

\* A parse of two items, each with a payload, has returned.
C23_Witness ==
    /\ op = "return"
    /\ arg.count = 2
    /\ Len(items) = 2
    /\ items[1].data # <<>>
    /\ items[2].data # <<>>

\* A call of getVariableParameterClass whose argument is not a non-negative
\* integer.
Rejectable(st) ==
    /\ st.fn = "getVariableParameterClass"
    /\ ~isinstance_int(st.argType) \/ st.args[1] < 0

\* C30: a call of getVariableParameterClass with an argument that is not a
\* non-negative integer ends with ValueError without ever reaching the
\* registry lookup, and none of its steps changes a registry or an object
\* that existed; a call with a non-negative integer ends by returning a
\* subclass of VariableParameterRecord and raises nothing.
C30_RejectsBeforeLookup ==
    [][\A c \in DOMAIN callers :
           /\ Rejectable(callers'[c]) =>
                  /\ callers'[c].pc \in {"class", "check", "done"}
                  /\ callers'[c].pc = "done" =>
                         /\ callers'[c].result = "ValueError"
                         /\ callers'[c].handed = callers[c].handed
           /\ (Rejectable(callers[c]) /\ callers'[c] # callers[c]
                   /\ callers[c].pc # "done") =>
                  /\ registries' = registries
                  /\ \A i \in DOMAIN heap : heap'[i] = heap[i]
           /\ (callers'[c].fn = "getVariableParameterClass"
                   /\ ~Rejectable(callers'[c])
                   /\ callers'[c].pc = "done") =>
                  /\ callers'[c].result \in VariableParameterRecord_subclasses
                  /\ callers'[c].handed \in DOMAIN heap'
                  /\ heap'[callers'[c].handed].name = callers'[c].result
      ]_vars

\* One caller was refused "7" and another -1, each with ValueError.
C30_Witness ==
    /\ callers # <<>>
    /\ \E c, d \in DOMAIN callers :
           /\ callers[c].pc = "done"
           /\ callers[c].argType = "str"
           /\ callers[c].result = "ValueError"
           /\ callers[d].pc = "done"
           /\ callers[d].argType = "int"
           /\ callers[d].args = <<0 - 1>>
           /\ callers[d].result = "ValueError"

====
